---------------------------- MODULE Spec2Model ----------------------------
(***************************************************************************)
(* A model of the secure-ai document pipeline (validator, extractor,       *)
(* detector, offset-to-bbox resolver, redactor, signer, auditor) and of    *)
(* its orchestrator Pipeline.run.                                          *)
(*                                                                         *)
(* Text is a sequence of one-character strings.  Rectangles are 4-tuples   *)
(* <<x0, y0, x1, y1>>; an unset bbox is the empty tuple.                   *)
(***************************************************************************)
EXTENDS Integers, Sequences, FiniteSets, TLC

VARIABLES
    \* ---- one extraction and resolution (extractor.py, pipeline.py 94-116)
    rawPage,      \* the page as PyMuPDF reports it: its spans in reading order
    pages,        \* the list of PageContent the extractor returned
    truth,        \* where each emitted block's text really stands in the page text
    detected,     \* the entities as the detector returned them
    entities,     \* all_entities, whose bbox the resolver fills in
    rpc           \* position: "extract", "detect", "resolve", "done"

resolveVars == <<rawPage, pages, truth, detected, entities, rpc>>

VARIABLES
    \* ---- one call of PIIDetector._deduplicate (detector.py 172-187)
    dInput,       \* the list passed in
    dOutput,      \* the list returned
    dpc           \* position: "call", "done"

dedupVars == <<dInput, dOutput, dpc>>

VARIABLES
    \* ---- one call of PIIDetector.detect (detector.py 61-82)
    tText,        \* the page text passed in
    tNer,         \* whether the NER pipeline is loaded (self._ner is not None)
    tEntities,    \* the list returned
    tpc           \* position: "call", "done"

detectVars == <<tText, tNer, tEntities, tpc>>

VARIABLES
    \* ---- one Pipeline.run (pipeline.py 58-152); it also uses pages,
    \* detected, entities and tNer above
    file,         \* the input file: its name and what the validator reads of it
    pc,           \* the stage about to start, or "returned" / "raised" / "idle"
    started,      \* the stages started so far, in order
    finished,     \* the stages that returned without raising, in order
    fsProcessing, \* file names in the processing directory
    fsError,      \* file names in the error directory
    fsProcessed,  \* file names in the processed directory
    fsSigned,     \* file names in the signed directory
    pDoc,         \* the document's pages as PyMuPDF reports them
    searched,     \* what page.search_for answered, per entity searched for
    rects,        \* the redaction annotations added, in order
    logCalls,     \* the results passed to AuditLogger.log, in order
    jobsTable,    \* the rows of the audit store's jobs table
    result        \* <<the ProcessResult returned>>, or <<>>

pipeVars == <<file, pc, started, finished, fsProcessing, fsError, fsProcessed,
              fsSigned, pDoc, searched, rects, logCalls, jobsTable, result>>

VARIABLES
    \* ---- one page through TextExtractor (extractor.py 79-268)
    xKind,        \* "pdf" (a page of a PDF) or "image" (a standalone image)
    xRaw,         \* the page's spans as PyMuPDF reports them (PDF only)
    xOcr,         \* the OCR engine: whether it can be used, and its word table
    xPage,        \* <<the PageContent produced>>, or <<>>
    xpc           \* position: "extract", "done"

extractVars == <<xKind, xRaw, xOcr, xPage, xpc>>

VARIABLES
    \* ---- one call of FileValidator.validate (validator.py 37-52)
    vFile,        \* the file passed in
    vGates,       \* the gates evaluated, in order
    vOutcome,     \* "OK" (True returned) or the reason of the ValidationError
    vpc           \* position: "call", "done"

validateVars == <<vFile, vGates, vOutcome, vpc>>

VARIABLES
    \* ---- one call of Redactor.redact (redactor.py 19-85)
    rdEnts,       \* the entities passed in
    rdDocPages,   \* len(doc)
    rdSearch,     \* what page.search_for answered, per entity searched for
    rdRects,      \* the redaction annotations added, in order
    rdpc          \* position: "call", "done"

redactVars == <<rdEnts, rdDocPages, rdSearch, rdRects, rdpc>>

VARIABLES
    \* ---- DocumentSigner.sign and verify (signer.py 30-82)
    sgKey,        \* the private key of the signer that signs
    sgVerifyKey,  \* the private key of the signer that verifies
    sgInput,      \* the PDF passed to sign: its bytes and its keywords metadata
    sgOut,        \* <<the file sign wrote>>, or <<>>
    sgOther,      \* another PDF handed to verify
    sgTampered,   \* whether the signed file's content was changed afterwards
    sgVerdict,    \* <<verify of the signed file, verify of the other file>>
    sgpc          \* position: "sign", "signed", "done"

signVars == <<sgKey, sgVerifyKey, sgInput, sgOut, sgOther, sgTampered, sgVerdict, sgpc>>

VARIABLES
    \* ---- threads calling the shared AuditLogger (logger.py 49-110)
    auLock,       \* self._lock: the thread holding it, or 0
    auPc,         \* per thread: "idle", "call", "locked", "inserted", "committed",
                  \* "failing" (the insert raised; the exception is on its way out)
    auArg,        \* per thread: <<the ProcessResult it is logging>>, or <<>>
    auTable,      \* the committed rows of the jobs table
    auCommitted,  \* the results whose insert was committed, in commit order
    auReturned,   \* the results whose log call returned
    auRaised,     \* the results whose log call raised
    auCalls,      \* the log calls started so far
    auRead        \* what get_job / get_stats calls returned, in order

auditVars == <<auLock, auPc, auArg, auTable, auCommitted, auReturned, auRaised,
               auCalls, auRead>>

VARIABLES
    \* ---- one Pipeline.run against the clock (pipeline.py 58-152)
    dlValid,      \* whether the file passes validation
    dlStage,      \* "idle", the stage about to run, or "returned"
    dlStart,      \* <<start>>: time.time() at entry, or <<>>
    dlNow,        \* the clock, in seconds
    dlResult      \* <<the ProcessResult returned>>, or <<>>

deadlineVars == <<dlValid, dlStage, dlStart, dlNow, dlResult>>

VARIABLES
    \* ---- the application and its endpoints (main.py 35-37, 46-196)
    hPhase,       \* "imported", "running", "failed" (startup raised), "stopped"
    hPipeline,    \* whether _pipeline is set
    hWatcher,     \* whether _watcher is set
    hAuditor,     \* whether _auditor is set
    hResponses    \* the responses given so far, in order

healthVars == <<hPhase, hPipeline, hWatcher, hAuditor, hResponses>>

VARIABLES
    \* ---- the configuration and the detector the pipeline builds from it
    \* ---- (settings.py 29-30, pipeline.py 50-56, detector.py 54-82)
    cfUseNer,     \* settings.use_ner
    cfAvailable,  \* whether the NER model can be loaded on this machine
    cfText,       \* the text of the page a run detects on
    cfNer,        \* whether the detector's _ner is set
    cfLoadCalls,  \* the number of _load_ner calls made
    cfTagCalls,   \* the number of calls of the tagger made
    cfEntities,   \* the entities detect returned
    cfpc          \* "configured", "built", "done"

configVars == <<cfUseNer, cfAvailable, cfText, cfNer, cfLoadCalls, cfTagCalls,
                cfEntities, cfpc>>

VARIABLES
    \* ---- one file in the watched uploads directory and the actors that
    \* ---- may move it (watcher.py 33-137, main.py 131-158)
    wOrigin,      \* how the file came to be there: "none", "drop", "api"
    wUploads,     \* whether the file is in the uploads directory
    wProcessing,  \* the actors whose destination file is in the processing directory
    wPc,          \* per actor: "none", "sleeping", "checked", "saved", "moved",
                  \* "returned", "raised"
    wRuns         \* the actors that started the pipeline on the file, in order

watchVars == <<wOrigin, wUploads, wProcessing, wPc, wRuns>>

\* the variables of the single-component specifications added to the first four
auxVars == <<extractVars, validateVars, redactVars, signVars, auditVars,
            deadlineVars, healthVars, configVars, watchVars>>

coreVars == <<rawPage, pages, truth, detected, entities, rpc, dInput, dOutput, dpc,
              tText, tNer, tEntities, tpc, file, pc, started, finished,
              fsProcessing, fsError, fsProcessed, fsSigned, pDoc, searched, rects,
              logCalls, jobsTable, result>>

vars == <<rawPage, pages, truth, detected, entities, rpc, dInput, dOutput, dpc,
          tText, tNer, tEntities, tpc, file, pc, started, finished, fsProcessing,
          fsError, fsProcessed, fsSigned, pDoc, searched, rects, logCalls,
          jobsTable, result, auxVars>>

\* Optional[List[float]] = None
NoBBox == <<>>

(***************************************************************************)
(* Bounds of the model.                                                    *)
(***************************************************************************)
MaxSpans == 3      \* spans on one page
MaxEntLen == 3     \* length of an entity's character range
MaxOcrWords == 2   \* entries of the OCR engine's word list
MaxEnts == 3       \* entities passed to one _deduplicate call
MaxPos == 3        \* largest character offset of such an entity
MaxTokens == 3     \* pieces a page text is put together from
MaxNerWord == 11   \* characters of a word the tagger reports

(***************************************************************************)
(* Python string primitives.                                               *)
(***************************************************************************)
IsSpace(c) == c \in {" ", "\n"}

Min(a, b) == IF a <= b THEN a ELSE b

Max(a, b) == IF a >= b THEN a ELSE b

SetMin(S) == CHOOSE x \in S : \A y \in S : x <= y

SetMax(S) == CHOOSE x \in S : \A y \in S : x >= y

\* s[a:b] with 0-based, half-open Python indices (clamped like a slice)
Slice(s, a, b) ==
    LET lo == Max(a, 0)
        hi == Min(b, Len(s))
    IN  IF hi <= lo THEN <<>> ELSE SubSeq(s, lo + 1, hi)

\* str.strip(): leading and trailing whitespace removed
RECURSIVE LStrip(_)
LStrip(s) ==
    IF s # <<>> /\ IsSpace(Head(s)) THEN LStrip(Tail(s)) ELSE s

RECURSIVE RStrip(_)
RStrip(s) ==
    IF s # <<>> /\ IsSpace(s[Len(s)]) THEN RStrip(SubSeq(s, 1, Len(s) - 1)) ELSE s

Strip(s) == RStrip(LStrip(s))

\* str.find(needle, from): the lowest 0-based index >= from where needle
\* occurs, or -1
RECURSIVE Find(_, _, _)
Find(hay, needle, from) ==
    IF from + Len(needle) > Len(hay) THEN -1
    ELSE IF Slice(hay, from, from + Len(needle)) = needle THEN from
    ELSE Find(hay, needle, from + 1)

\* sep.join(parts)
RECURSIVE Join(_, _)
Join(sep, parts) ==
    IF parts = <<>> THEN <<>>
    ELSE IF Len(parts) = 1 THEN parts[1]
    ELSE parts[1] \o sep \o Join(sep, Tail(parts))


\* Path.suffix.lower(), on the suffixes the model uses
SuffixLower(suffix) ==
    CASE suffix = ".PDF" -> ".pdf"
      [] suffix = ".PNG" -> ".png"
      [] OTHER -> suffix

(***************************************************************************)
(* extractor.py -- TextExtractor._extract_pdf, one page.                   *)
(*                                                                         *)
(* rawPage is the page's span list in reading order; each span is          *)
(* [raw |-> its text, nl |-> it starts a new line].  A span's rectangle    *)
(* follows from where it stands: column 10 * (position in its line), row   *)
(* 10 * (line number).                                                     *)
(***************************************************************************)
MIN_TEXT_THRESHOLD == 20

\* the line (1-based) span k stands on
LineNo(raw, k) == Cardinality({j \in 1..k : j = 1 \/ raw[j].nl})

\* the 0-based position of span k within its line
PosInLine(raw, k) == Cardinality({j \in 1..(k - 1) : LineNo(raw, j) = LineNo(raw, k)})

\* span.get("bbox")
SpanRect(raw, k) ==
    <<10 * PosInLine(raw, k), 10 * LineNo(raw, k),
      10 * PosInLine(raw, k) + 8, 10 * LineNo(raw, k) + 8>>

\* lines 90-112: the blocks appended with placeholder offsets, in span order;
\* a span whose stripped text is empty is skipped
PlaceholderBlocks(raw, page_idx) ==
    LET all == [k \in 1..Len(raw) |->
                  [text |-> Strip(raw[k].raw), bbox |-> SpanRect(raw, k),
                   page_number |-> page_idx, char_start |-> 0, char_end |-> 0,
                   line |-> LineNo(raw, k)]]
    IN  SelectSeq(all, LAMBDA b : b.text # <<>>)

\* lines 93-114: one " ".join(span_texts) per line that has a span text
RECURSIVE LineTextsFrom(_, _, _)
LineTextsFrom(blocks, l, nlines) ==
    IF l > nlines THEN <<>>
    ELSE LET mine == SelectSeq(blocks, LAMBDA b : b.line = l)
             span_texts == [i \in 1..Len(mine) |-> mine[i].text]
         IN  (IF span_texts # <<>> THEN <<Join(<<" ">>, span_texts)>> ELSE <<>>)
             \o LineTextsFrom(blocks, l + 1, nlines)

\* line 117: full_text = "\n".join(line_texts)
FullText(raw) ==
    LET nlines == IF raw = <<>> THEN 0 ELSE LineNo(raw, Len(raw))
    IN  Join(<<"\n">>, LineTextsFrom(PlaceholderBlocks(raw, 0), 1, nlines))

\* a variant of the offset search that looks for every block's text from
\* the start of the page text
RECURSIVE AssignOffsetsFromStart(_, _, _)
AssignOffsetsFromStart(blocks, full_text, search_from) ==
    IF blocks = <<>> THEN <<>>
    ELSE LET blk == Head(blocks)
             idx == Find(full_text, blk.text, 0)
         IN  <<[text |-> blk.text, bbox |-> blk.bbox, page_number |-> blk.page_number,
                char_start |-> idx, char_end |-> idx + Len(blk.text)]>>
             \o AssignOffsetsFromStart(Tail(blocks), full_text, search_from)

\* a variant that never searches: every block is laid at the cursor, which
\* moves on by the block's length without the separator
RECURSIVE AssignOffsetsNoSeparator(_, _, _)
AssignOffsetsNoSeparator(blocks, full_text, search_from) ==
    IF blocks = <<>> THEN <<>>
    ELSE LET blk == Head(blocks)
         IN  <<[text |-> blk.text, bbox |-> blk.bbox, page_number |-> blk.page_number,
                char_start |-> search_from,
                char_end |-> search_from + Len(blk.text)]>>
             \o AssignOffsetsNoSeparator(Tail(blocks), full_text,
                                         search_from + Len(blk.text))

\* lines 121-131: the forward search that gives each block its offsets; on a
\* hit the cursor moves to the hit, not past it
RECURSIVE AssignOffsets(_, _, _)
AssignOffsets(blocks, full_text, search_from) ==
    IF blocks = <<>> THEN <<>>
    ELSE LET blk == Head(blocks)
             idx == Find(full_text, blk.text, search_from)
             out == [text |-> blk.text, bbox |-> blk.bbox,
                     page_number |-> blk.page_number,
                     char_start |-> IF idx >= 0 THEN idx ELSE search_from,
                     char_end |-> (IF idx >= 0 THEN idx ELSE search_from) + Len(blk.text)]
         IN  <<out>> \o AssignOffsets(Tail(blocks), full_text,
                                      IF idx >= 0 THEN idx ELSE search_from)

\* where the i-th of a list of texts joined by one-character separators
\* stands in the joined text: <<start, end>>, 0-based and half-open
RECURSIVE TruePositionsFrom(_, _)
TruePositionsFrom(texts, offset) ==
    IF texts = <<>> THEN <<>>
    ELSE <<(<<offset, offset + Len(Head(texts))>>)>>
         \o TruePositionsFrom(Tail(texts), offset + Len(Head(texts)) + 1)

TruePositions(blocks) ==
    TruePositionsFrom([i \in 1..Len(blocks) |-> blocks[i].text], 0)

(***************************************************************************)
(* extractor.py -- TextExtractor._ocr_page.  data is the OCR engine's      *)
(* word table: a sequence of [text, left, top, width, height] in raster    *)
(* pixels; available is FALSE when the OCR engine cannot be used.          *)
(***************************************************************************)
\* x * scale with scale = 72 / 300 (exact for the multiples of 25 used here)
Scale(x) == (x * 72) \div 300

RECURSIVE OcrBlocksFrom(_, _, _)
OcrBlocksFrom(data, page_idx, current_offset) ==
    IF data = <<>> THEN <<>>
    ELSE LET d == Head(data)
             text == Strip(d.text)
         IN  IF text = <<>> THEN OcrBlocksFrom(Tail(data), page_idx, current_offset)
             ELSE <<[text |-> text,
                     bbox |-> <<Scale(d.left), Scale(d.top),
                                Scale(d.left + d.width), Scale(d.top + d.height)>>,
                     page_number |-> page_idx,
                     char_start |-> current_offset,
                     char_end |-> current_offset + Len(text)]>>
                  \o OcrBlocksFrom(Tail(data), page_idx, current_offset + Len(text) + 1)

OcrPage(page_idx, available, data) ==
    IF ~available
    THEN [page_number |-> page_idx, text |-> <<>>, blocks |-> <<>>, ocr_used |-> TRUE]
    ELSE LET blocks == OcrBlocksFrom(data, page_idx, 0)
         IN  [page_number |-> page_idx,
              text |-> Join(<<" ">>, [i \in 1..Len(blocks) |-> blocks[i].text]),
              blocks |-> blocks,
              ocr_used |-> TRUE]

\* a variant that also sends a page of exactly the threshold's length to OCR
ExtractPdfPageAtMost(raw, page_idx, ocrAvailable, ocrData) ==
    LET full_text == FullText(raw)
        blocks == AssignOffsets(PlaceholderBlocks(raw, page_idx), full_text, 0)
    IN  IF Len(Strip(full_text)) <= MIN_TEXT_THRESHOLD
        THEN OcrPage(page_idx, ocrAvailable, ocrData)
        ELSE [page_number |-> page_idx, text |-> full_text, blocks |-> blocks,
              ocr_used |-> FALSE]

\* lines 83-147 for one page: native text, or OCR when the text is short
ExtractPdfPage(raw, page_idx, ocrAvailable, ocrData) ==
    LET full_text == FullText(raw)
        blocks == AssignOffsets(PlaceholderBlocks(raw, page_idx), full_text, 0)
    IN  IF Len(Strip(full_text)) < MIN_TEXT_THRESHOLD
        THEN OcrPage(page_idx, ocrAvailable, ocrData)
        ELSE [page_number |-> page_idx, text |-> full_text, blocks |-> blocks,
              ocr_used |-> FALSE]

\* lines 79-150: every page of the document; ocr[i] is the OCR engine's
\* state and answer for page i
ExtractPdf(doc, ocr) ==
    [i \in 1..Len(doc) |-> ExtractPdfPage(doc[i], i - 1, ocr[i].available, ocr[i].data)]

(***************************************************************************)
(* extractor.py -- TextExtractor._extract_image: the OCR engine's word     *)
(* table of the image, pixels taken as points.                             *)
(***************************************************************************)
RECURSIVE ImageBlocksFrom(_, _)
ImageBlocksFrom(data, current_offset) ==
    IF data = <<>> THEN <<>>
    ELSE LET d == Head(data)
             text == Strip(d.text)
         IN  IF text = <<>> THEN ImageBlocksFrom(Tail(data), current_offset)
             ELSE <<[text |-> text,
                     bbox |-> <<d.left, d.top, d.left + d.width, d.top + d.height>>,
                     page_number |-> 0,
                     char_start |-> current_offset,
                     char_end |-> current_offset + Len(text)]>>
                  \o ImageBlocksFrom(Tail(data), current_offset + Len(text) + 1)

ExtractImage(available, data) ==
    IF ~available
    THEN [page_number |-> 0, text |-> <<>>, blocks |-> <<>>, ocr_used |-> TRUE]
    ELSE LET blocks == ImageBlocksFrom(data, 0)
         IN  [page_number |-> 0,
              text |-> Join(<<" ">>, [i \in 1..Len(blocks) |-> blocks[i].text]),
              blocks |-> blocks,
              ocr_used |-> TRUE]

\* lines 65-75: by the file name's suffix
Extract(suffix, doc, ocr) ==
    IF SuffixLower(suffix) = ".pdf" THEN ExtractPdf(doc, ocr)
    ELSE IF SuffixLower(suffix) \in {".jpg", ".jpeg", ".png", ".tiff", ".tif"}
    THEN <<ExtractImage(ocr[1].available, ocr[1].data)>>
    ELSE <<>>

(***************************************************************************)
(* extractor.py -- PageContent.get_bboxes_for_range, and the resolver      *)
(* loop body of Pipeline.run (pipeline.py 96-116).                         *)
(***************************************************************************)
\* a variant that stops at the first block lying before the range
RECURSIVE get_bboxes_break_before(_, _, _)
get_bboxes_break_before(blocks, start, end) ==
    IF blocks = <<>> THEN <<>>
    ELSE LET block == Head(blocks)
         IN  IF block.char_end <= start \/ block.char_start >= end
             THEN <<>>
             ELSE <<block.bbox>> \o get_bboxes_break_before(Tail(blocks), start, end)

RECURSIVE get_bboxes_for_range(_, _, _)
get_bboxes_for_range(blocks, start, end) ==
    IF blocks = <<>> THEN <<>>
    ELSE LET block == Head(blocks)
         IN  IF block.char_end <= start
             THEN get_bboxes_for_range(Tail(blocks), start, end)    \* continue
             ELSE IF block.char_start >= end
             THEN <<>>                                              \* break
             ELSE <<block.bbox>> \o get_bboxes_for_range(Tail(blocks), start, end)

\* lines 111-115: the rectangle enclosing a non-empty list of rectangles
MergeBboxes(bboxes) ==
    <<SetMin({bboxes[i][1] : i \in 1..Len(bboxes)}),
      SetMin({bboxes[i][2] : i \in 1..Len(bboxes)}),
      SetMax({bboxes[i][3] : i \in 1..Len(bboxes)}),
      SetMax({bboxes[i][4] : i \in 1..Len(bboxes)})>>

\* line 94: page_map = {p.page_number: p for p in pages}
PageMap(ps) ==
    [n \in {ps[i].page_number : i \in 1..Len(ps)} |->
        LET last == SetMax({i \in 1..Len(ps) : ps[i].page_number = n}) IN ps[last]]

\* lines 97-116 for one entity
ResolveEntity(ent, page_map) ==
    IF ent.bbox # NoBBox THEN ent
    ELSE IF ent.page \notin DOMAIN page_map THEN ent
    ELSE LET bboxes == get_bboxes_for_range(page_map[ent.page].blocks, ent.start, ent.end)
         IN  IF bboxes = <<>> THEN ent
             ELSE IF Len(bboxes) = 1 THEN [ent EXCEPT !.bbox = bboxes[1]]
             ELSE [ent EXCEPT !.bbox = MergeBboxes(bboxes)]

\* lines 96-116: the resolver loop over all_entities
ResolveAll(ents, ps) == [i \in 1..Len(ents) |-> ResolveEntity(ents[i], PageMap(ps))]

(***************************************************************************)
(* detector.py -- PIIDetector._deduplicate.  Confidence is in hundredths   *)
(* (1.0 is 100).  idx is the entity's place in the list passed in: it      *)
(* tells apart two entities with equal fields.                             *)
(***************************************************************************)
\* entities.sort(key=lambda e: (e.start, -e.confidence)): stable, so e goes
\* after every element whose key is not greater than its own
RECURSIVE InsertByKey(_, _)
InsertByKey(sorted, e) ==
    IF sorted = <<>> THEN <<e>>
    ELSE LET h == Head(sorted)
         IN  IF \/ h.start < e.start
                \/ (h.start = e.start /\ (0 - h.confidence) <= (0 - e.confidence))
             THEN <<h>> \o InsertByKey(Tail(sorted), e)
             ELSE <<e>> \o sorted

RECURSIVE SortEntitiesFrom(_, _)
SortEntitiesFrom(sorted, rest) ==
    IF rest = <<>> THEN sorted
    ELSE SortEntitiesFrom(InsertByKey(sorted, Head(rest)), Tail(rest))

SortEntities(ents) == SortEntitiesFrom(<<>>, ents)

\* lines 180-185: the loop over entities[1:]
RECURSIVE DedupLoop(_, _)
DedupLoop(deduped, rest) ==
    IF rest = <<>> THEN deduped
    ELSE LET ent == Head(rest)
             prev == deduped[Len(deduped)]
         IN  IF ent.start < prev.end
             THEN DedupLoop(deduped, Tail(rest))
             ELSE DedupLoop(Append(deduped, ent), Tail(rest))

\* a variant that compares each entity with the one before it in sorted
\* order, kept or not
RECURSIVE DedupLoopPrevSorted(_, _, _)
DedupLoopPrevSorted(deduped, before, rest) ==
    IF rest = <<>> THEN deduped
    ELSE LET ent == Head(rest)
         IN  IF ent.start < before.end
             THEN DedupLoopPrevSorted(deduped, ent, Tail(rest))
             ELSE DedupLoopPrevSorted(Append(deduped, ent), ent, Tail(rest))

DeduplicatePrevSorted(ents) ==
    IF ents = <<>> THEN <<>>
    ELSE LET sorted == SortEntities(ents)
         IN  DedupLoopPrevSorted(<<sorted[1]>>, sorted[1], Tail(sorted))

\* a variant whose sort key is (start, confidence): the lowest confidence first
RECURSIVE InsertByKeyAscending(_, _)
InsertByKeyAscending(sorted, e) ==
    IF sorted = <<>> THEN <<e>>
    ELSE LET h == Head(sorted)
         IN  IF \/ h.start < e.start
                \/ (h.start = e.start /\ h.confidence <= e.confidence)
             THEN <<h>> \o InsertByKeyAscending(Tail(sorted), e)
             ELSE <<e>> \o sorted

RECURSIVE SortAscendingFrom(_, _)
SortAscendingFrom(sorted, rest) ==
    IF rest = <<>> THEN sorted
    ELSE SortAscendingFrom(InsertByKeyAscending(sorted, Head(rest)), Tail(rest))

DeduplicateAscending(ents) ==
    IF ents = <<>> THEN <<>>
    ELSE LET sorted == SortAscendingFrom(<<>>, ents)
         IN  DedupLoop(<<sorted[1]>>, Tail(sorted))

\* lines 172-187
Deduplicate(ents) ==
    IF ents = <<>> THEN <<>>
    ELSE LET sorted == SortEntities(ents)
         IN  DedupLoop(<<sorted[1]>>, Tail(sorted))

(***************************************************************************)
(* detector.py -- the regex family.  The three patterns of fixed shape     *)
(* (SSN, AADHAAR, PAN) are matched as re.finditer matches them; a shape is *)
(* a sequence of character classes between two \b.                         *)
(***************************************************************************)
Digits == {"0", "1", "2", "3", "4", "5", "6", "7", "8", "9"}

Upper == {"A", "B", "C", "D", "E", "F", "G", "H", "I", "J", "K", "L", "M",
          "N", "O", "P", "Q", "R", "S", "T", "U", "V", "W", "X", "Y", "Z"}

LowerOf ==
    [c \in Upper |->
        CASE c = "A" -> "a" [] c = "B" -> "b" [] c = "C" -> "c" [] c = "D" -> "d"
          [] c = "E" -> "e" [] c = "F" -> "f" [] c = "G" -> "g" [] c = "H" -> "h"
          [] c = "I" -> "i" [] c = "J" -> "j" [] c = "K" -> "k" [] c = "L" -> "l"
          [] c = "M" -> "m" [] c = "N" -> "n" [] c = "O" -> "o" [] c = "P" -> "p"
          [] c = "Q" -> "q" [] c = "R" -> "r" [] c = "S" -> "s" [] c = "T" -> "t"
          [] c = "U" -> "u" [] c = "V" -> "v" [] c = "W" -> "w" [] c = "X" -> "x"
          [] c = "Y" -> "y" [] c = "Z" -> "z"]

LowerLetters == {LowerOf[c] : c \in Upper}

\* \w
IsWordChar(c) == c \in Digits \cup Upper \cup LowerLetters \cup {"_"}

InClass(c, class) ==
    CASE class = "d" -> c \in Digits
      [] class = "A-Z" -> c \in Upper
      [] class = "s" -> IsSpace(c)
      [] OTHER -> c = class

\* \b at 0-based position i of text
WordBoundary(text, i) ==
    LET before == i > 0 /\ IsWordChar(text[i])
        after == i < Len(text) /\ IsWordChar(text[i + 1])
    IN  before # after

\* lines 16-42
SSN_SHAPE == <<"d", "d", "d", "-", "d", "d", "-", "d", "d", "d", "d">>

AADHAAR_SHAPE == <<"d", "d", "d", "d", "s", "d", "d", "d", "d", "s", "d", "d", "d", "d">>

PAN_SHAPE == <<"A-Z", "A-Z", "A-Z", "A-Z", "A-Z", "d", "d", "d", "d", "A-Z">>

Patterns ==
    <<[entity_type |-> "SSN", shape |-> SSN_SHAPE],
      [entity_type |-> "AADHAAR", shape |-> AADHAAR_SHAPE],
      [entity_type |-> "PAN", shape |-> PAN_SHAPE]>>

\* pattern.match at position i
MatchesAt(text, shape, i) ==
    /\ i + Len(shape) <= Len(text)
    /\ WordBoundary(text, i)
    /\ WordBoundary(text, i + Len(shape))
    /\ \A k \in 1..Len(shape) : InClass(text[i + k], shape[k])

\* pattern.finditer(text): the matches from left to right, each search
\* resuming where the last match ended (the leftmost position from i on
\* where the pattern matches is the next match)
RECURSIVE Finditer(_, _, _)
Finditer(text, shape, i) ==
    LET hits == {j \in i..(Len(text) - Len(shape)) : MatchesAt(text, shape, j)}
    IN  IF hits = {} THEN <<>>
        ELSE LET m == SetMin(hits)
             IN  <<[start |-> m, end |-> m + Len(shape),
                    group |-> Slice(text, m, m + Len(shape))]>>
                 \o Finditer(text, shape, m + Len(shape))

\* lines 86-99
RECURSIVE DetectRegexFrom(_, _, _)
DetectRegexFrom(text, page_number, k) ==
    IF k > Len(Patterns) THEN <<>>
    ELSE LET ms == Finditer(text, Patterns[k].shape, 0)
         IN  [i \in 1..Len(ms) |->
                 [entity_type |-> Patterns[k].entity_type, text |-> ms[i].group,
                  start |-> ms[i].start, end |-> ms[i].end, confidence |-> 100,
                  page |-> page_number, source |-> "regex", bbox |-> NoBBox]]
             \o DetectRegexFrom(text, page_number, k + 1)

DetectRegex(text, page_number) == DetectRegexFrom(text, page_number, 1)

(***************************************************************************)
(* detector.py -- the NER family.  The tagger is the HuggingFace pipeline  *)
(* loaded at lines 103-112; its answer for a chunk is an input:            *)
(* [raised |-> the call raised, results |-> a list of [entity_group, word, *)
(* start, end, score]].                                                    *)
(***************************************************************************)
NER_CONFIDENCE_THRESHOLD == 90

MIN_ENTITY_LENGTH == 3

CHUNK_SIZE == 450

\* range(0, len(text), chunk_size)
ChunkStarts(text) == {c \in 0..Len(text) : c < Len(text) /\ c % CHUNK_SIZE = 0}

MappedType(label) ==
    CASE label = "PER" -> "PERSON"
      [] label = "LOC" -> "LOCATION"
      [] label = "ORG" -> "ORGANIZATION"
      [] OTHER -> label

\* lines 133-166: the entities found in one chunk's results
RECURSIVE NerEntitiesOf(_, _, _)
NerEntitiesOf(results, chunk_start, page_number) ==
    IF results = <<>> THEN <<>>
    ELSE LET ent == Head(results)
             text_content == Strip(ent.word)
             rest == NerEntitiesOf(Tail(results), chunk_start, page_number)
         IN  IF ent.entity_group \notin {"PER", "LOC", "ORG"} THEN rest
             ELSE IF Len(text_content) < MIN_ENTITY_LENGTH THEN rest
             ELSE IF ent.score < NER_CONFIDENCE_THRESHOLD THEN rest
             ELSE <<[entity_type |-> MappedType(ent.entity_group),
                     text |-> text_content,
                     start |-> chunk_start + ent.start,
                     end |-> chunk_start + ent.end,
                     confidence |-> ent.score,
                     page |-> page_number, source |-> "ner", bbox |-> NoBBox]>> \o rest

\* lines 118-168; answers[c] is the tagger's answer for the chunk at c
RECURSIVE DetectNerFrom(_, _, _, _)
DetectNerFrom(text, page_number, answers, chunk_start) ==
    IF chunk_start >= Len(text) THEN <<>>
    ELSE (IF answers[chunk_start].raised THEN <<>>
          ELSE NerEntitiesOf(answers[chunk_start].results, chunk_start, page_number))
         \o DetectNerFrom(text, page_number, answers, chunk_start + CHUNK_SIZE)

DetectNer(text, page_number, answers) == DetectNerFrom(text, page_number, answers, 0)

\* lines 61-82
Detect(text, page_number, ner_loaded, answers) ==
    Deduplicate(DetectRegex(text, page_number)
                \o (IF ner_loaded THEN DetectNer(text, page_number, answers) ELSE <<>>))

(***************************************************************************)
(* validator.py -- FileValidator.  A file is [stem, suffix, mime, size,    *)
(* openable, encrypted, page_count]: its name is stem + suffix, mime is    *)
(* what libmagic sniffs ("raise" when it fails), openable is whether       *)
(* fitz.open succeeds.  validate's outcome is "OK" or the reason of the    *)
(* ValidationError raised.                                                 *)
(***************************************************************************)
ALLOWED_EXTENSIONS == {".pdf", ".jpg", ".jpeg", ".png", ".tiff", ".tif"}

ALLOWED_MIMES == {"application/pdf", "image/jpeg", "image/png", "image/tiff"}

MAX_PDF_PAGES == 50

MAX_SIZE_MB == 50

\* line 34: self.max_size_bytes
MaxSizeBytes == MAX_SIZE_MB * 1024 * 1024

\* lines 63-68
CheckExtension(f) ==
    IF SuffixLower(f.suffix) \notin ALLOWED_EXTENSIONS THEN "extension not allowed" ELSE "OK"

\* lines 70-80
CheckMime(f) ==
    IF f.mime = "raise" THEN "MIME detection failed"
    ELSE IF f.mime \notin ALLOWED_MIMES THEN "MIME type not allowed"
    ELSE "OK"

\* a variant of the size gate that also refuses a file of exactly the limit
CheckSizeBelow(f) == IF f.size >= MaxSizeBytes THEN "file too large" ELSE "OK"

\* lines 82-88
CheckSize(f) == IF f.size > MaxSizeBytes THEN "file too large" ELSE "OK"

\* lines 90-99
CheckEncryption(f) ==
    IF ~f.openable THEN "cannot open PDF"
    ELSE IF f.encrypted THEN "PDF is encrypted"
    ELSE "OK"

\* lines 101-109
CheckPageCount(f) ==
    IF f.page_count > MAX_PDF_PAGES THEN "too many pages" ELSE "OK"

\* lines 37-52
Validate(f) ==
    IF CheckExtension(f) # "OK" THEN CheckExtension(f)
    ELSE IF CheckMime(f) # "OK" THEN CheckMime(f)
    ELSE IF CheckSize(f) # "OK" THEN CheckSize(f)
    ELSE IF SuffixLower(f.suffix) = ".pdf" /\ CheckEncryption(f) # "OK" THEN CheckEncryption(f)
    ELSE IF SuffixLower(f.suffix) = ".pdf" /\ CheckPageCount(f) # "OK" THEN CheckPageCount(f)
    ELSE "OK"

\* lines 42-49: the gates validate evaluates, in order, up to the first
\* one that raises
ValidateGates(f) ==
    <<"extension">>
    \o (IF CheckExtension(f) # "OK" THEN <<>> ELSE <<"mime">>
    \o (IF CheckMime(f) # "OK" THEN <<>> ELSE <<"size">>
    \o (IF CheckSize(f) # "OK" \/ SuffixLower(f.suffix) # ".pdf" THEN <<>>
        ELSE <<"encryption">>
    \o (IF CheckEncryption(f) # "OK" THEN <<>> ELSE <<"page_count">>))))

(***************************************************************************)
(* redactor.py -- Redactor.redact.  doc_pages is len(doc); search[i] is    *)
(* the list of rectangles page.search_for(entity.text) returns for the     *)
(* i-th entity.  The result is the list of annotations added.              *)
(***************************************************************************)
\* the entities the loop runs the text search for
NeedSearch(ents, doc_pages) ==
    {i \in 1..Len(ents) :
        ents[i].page < doc_pages /\ ents[i].bbox = NoBBox /\ Len(ents[i].text) >= 4}

\* a variant of the loop that annotates every rectangle the search returns
RECURSIVE RedactAllMatches(_, _, _, _)
RedactAllMatches(ents, i, doc_pages, search) ==
    IF i > Len(ents) THEN <<>>
    ELSE LET ent == ents[i]
             rest == RedactAllMatches(ents, i + 1, doc_pages, search)
         IN  IF ent.page >= doc_pages THEN rest
             ELSE IF ent.bbox # NoBBox
             THEN <<[page |-> ent.page, rect |-> ent.bbox, entity |-> i]>> \o rest
             ELSE IF Len(ent.text) < 4 THEN rest
             ELSE [k \in 1..Len(search[i]) |->
                      [page |-> ent.page, rect |-> search[i][k], entity |-> i]] \o rest

\* lines 32-72
RECURSIVE RedactFrom(_, _, _, _)
RedactFrom(ents, i, doc_pages, search) ==
    IF i > Len(ents) THEN <<>>
    ELSE LET ent == ents[i]
             rest == RedactFrom(ents, i + 1, doc_pages, search)
         IN  IF ent.page >= doc_pages THEN rest
             ELSE IF ent.bbox # NoBBox
             THEN <<[page |-> ent.page, rect |-> ent.bbox, entity |-> i]>> \o rest
             ELSE IF Len(ent.text) < 4 THEN rest
             ELSE IF search[i] # <<>>
             THEN <<[page |-> ent.page, rect |-> search[i][1], entity |-> i]>> \o rest
             ELSE rest

Redact(ents, doc_pages, search) == RedactFrom(ents, 1, doc_pages, search)

(***************************************************************************)
(* signer.py -- DocumentSigner.  File bytes are named by a number; a       *)
(* digest and a signature are short byte strings; SHA-256 and ECDSA are    *)
(* stood in for by an injective digest and by a keyed checksum with a      *)
(* nonce (ECDSA signatures differ from call to call).  The keywords        *)
(* metadata is [json, pairs]: json is "invalid" (it does not parse),       *)
(* "object", or "other" (it parses to a list, a number, a string ...);     *)
(* pairs are an object's <<key, value>> pairs.                             *)
(***************************************************************************)
HexDigits ==
    <<"0", "1", "2", "3", "4", "5", "6", "7", "8", "9", "a", "b", "c", "d", "e", "f">>

\* the value of a hexadecimal digit, -1 for any other character
HexValue(c) ==
    IF \E v \in 1..16 : HexDigits[v] = c
    THEN (CHOOSE v \in 1..16 : HexDigits[v] = c) - 1
    ELSE -1

\* bytes.hex() and hashlib's hexdigest(): two lowercase digits per byte
RECURSIVE Hex(_)
Hex(bytes) ==
    IF bytes = <<>> THEN <<>>
    ELSE <<HexDigits[(Head(bytes) \div 16) + 1], HexDigits[(Head(bytes) % 16) + 1]>>
         \o Hex(Tail(bytes))

\* whether bytes.fromhex accepts the string (it raises ValueError otherwise)
IsHex(str) ==
    /\ Len(str) % 2 = 0
    /\ \A i \in 1..Len(str) : HexValue(str[i]) >= 0

\* bytes.fromhex
FromHex(str) ==
    [i \in 1..(Len(str) \div 2) |-> 16 * HexValue(str[2 * i - 1]) + HexValue(str[2 * i])]

\* hashlib.sha256(data).digest(), on the model's file contents
Sha256(data) == <<(171 * data + 5) % 256, (data * data + 77) % 256>>

\* str.encode(): one byte per character of a hexadecimal string
Encode(str) == [i \in 1..Len(str) |-> 48 + HexValue(str[i])]

RECURSIVE SumBytes(_)
SumBytes(bytes) == IF bytes = <<>> THEN 0 ELSE Head(bytes) + SumBytes(Tail(bytes))

\* private_key.sign(message, ECDSA(SHA256)) with the nonce it drew
EcdsaSign(key, message, nonce) ==
    <<nonce, (97 * key + 3 * SumBytes(message) + 7 * nonce) % 256>>

\* public_key.verify(signature, message, ECDSA(SHA256)): TRUE when it
\* returns, FALSE when it raises InvalidSignature
EcdsaVerify(key, signature, message) ==
    /\ Len(signature) = 2
    /\ signature[2] = (97 * key + 3 * SumBytes(message) + 7 * signature[1]) % 256

\* sig_data[k]: <<the value>>, or <<>> for KeyError
Lookup(pairs, k) ==
    LET hits == SelectSeq(pairs, LAMBDA kv : kv[1] = k)
    IN  IF hits = <<>> THEN <<>> ELSE <<hits[Len(hits)][2]>>

\* a variant of sign that signs the digest itself, not its hexadecimal text
SignOverDigest(key, x, nonce) ==
    LET file_hash == Hex(Sha256(x.content))
        signature == EcdsaSign(key, Sha256(x.content), nonce)
    IN  [content |-> x.content,
         keywords |-> [json |-> "object",
                       pairs |-> <<(<<"secure_doc_ai_signature", Hex(signature)>>),
                                   (<<"sha256", file_hash>>)>>]]

\* lines 30-59: the file sign writes for the input x
Sign(key, x, nonce) ==
    LET file_hash == Hex(Sha256(x.content))
        signature == EcdsaSign(key, Encode(file_hash), nonce)
    IN  [content |-> x.content,
         keywords |-> [json |-> "object",
                       pairs |-> <<(<<"secure_doc_ai_signature", Hex(signature)>>),
                                   (<<"sha256", file_hash>>)>>]]

\* a variant of verify that also compares the stored hash with the hash of
\* the file it is given
VerifyRehashing(key, f) ==
    LET sig == Lookup(f.keywords.pairs, "secure_doc_ai_signature")
        hash == Lookup(f.keywords.pairs, "sha256")
    IN  IF f.keywords.json = "invalid" THEN "false"
        ELSE IF f.keywords.json = "other" THEN "raise"
        ELSE IF sig = <<>> THEN "false"
        ELSE IF ~IsHex(sig[1]) THEN "raise"
        ELSE IF hash = <<>> THEN "false"
        ELSE IF /\ EcdsaVerify(key, FromHex(sig[1]), Encode(hash[1]))
                /\ hash[1] = Hex(Sha256(f.content))
             THEN "true" ELSE "false"

\* lines 61-82: "true", "false", or "raise" when an exception leaves verify:
\* TypeError from indexing parsed JSON that is not an object, ValueError
\* from bytes.fromhex; only JSONDecodeError and KeyError are caught
Verify(key, f) ==
    LET sig == Lookup(f.keywords.pairs, "secure_doc_ai_signature")
        hash == Lookup(f.keywords.pairs, "sha256")
    IN  IF f.keywords.json = "invalid" THEN "false"
        ELSE IF f.keywords.json = "other" THEN "raise"
        ELSE IF sig = <<>> THEN "false"
        ELSE IF ~IsHex(sig[1]) THEN "raise"
        ELSE IF hash = <<>> THEN "false"
        ELSE IF EcdsaVerify(key, FromHex(sig[1]), Encode(hash[1]))
             THEN "true" ELSE "false"

(***************************************************************************)
(* SpecResolve: one page is extracted, one entity is placed on its text    *)
(* and resolved.  The page's spans, the OCR engine's answer and the        *)
(* entity's range are the inputs.                                          *)
(***************************************************************************)
Filler == [i \in 1..MIN_TEXT_THRESHOLD |-> "c"]

RawSpanTexts == {<<"a", "b">>, <<"a", " ">>, <<" ">>, Filler}

RawPages ==
    UNION {{[k \in 1..n |-> [raw |-> t[k], nl |-> (k = 1 \/ b[k])]] :
                t \in [1..n -> RawSpanTexts], b \in [1..n -> BOOLEAN]} : n \in 1..MaxSpans}

OcrWords == {<<"a", "b">>, <<"a", " ">>, <<" ">>}

\* the word table: word i stands at pixel column 250 * i
OcrTables ==
    UNION {{[i \in 1..n |-> [text |-> w[i], left |-> 250 * i, top |-> 50,
                             width |-> 200, height |-> 25]] :
                w \in [1..n -> OcrWords]} : n \in 0..MaxOcrWords}

PresetBBox == <<1, 1, 2, 2>>

ExtractIdle ==
    /\ xKind = "idle"
    /\ xRaw = <<>>
    /\ xOcr = <<>>
    /\ xPage = <<>>
    /\ xpc = "idle"

ValidateIdle ==
    /\ vFile = <<>>
    /\ vGates = <<>>
    /\ vOutcome = "idle"
    /\ vpc = "idle"

RedactIdle ==
    /\ rdEnts = <<>>
    /\ rdDocPages = 0
    /\ rdSearch = <<>>
    /\ rdRects = <<>>
    /\ rdpc = "idle"

SignIdle ==
    /\ sgKey = 0
    /\ sgVerifyKey = 0
    /\ sgInput = <<>>
    /\ sgOut = <<>>
    /\ sgOther = <<>>
    /\ sgTampered = FALSE
    /\ sgVerdict = <<>>
    /\ sgpc = "idle"

AuditIdle ==
    /\ auLock = 0
    /\ auPc = <<>>
    /\ auArg = <<>>
    /\ auTable = {}
    /\ auCommitted = <<>>
    /\ auReturned = {}
    /\ auRaised = {}
    /\ auCalls = 0
    /\ auRead = <<>>

DeadlineIdle ==
    /\ dlValid = FALSE
    /\ dlStage = "off"
    /\ dlStart = <<>>
    /\ dlNow = 0
    /\ dlResult = <<>>

HealthIdle ==
    /\ hPhase = "off"
    /\ hPipeline = FALSE
    /\ hWatcher = FALSE
    /\ hAuditor = FALSE
    /\ hResponses = <<>>

ConfigIdle ==
    /\ cfUseNer = FALSE
    /\ cfAvailable = FALSE
    /\ cfText = <<>>
    /\ cfNer = FALSE
    /\ cfLoadCalls = 0
    /\ cfTagCalls = 0
    /\ cfEntities = <<>>
    /\ cfpc = "off"

WatchIdle ==
    /\ wOrigin = "off"
    /\ wUploads = FALSE
    /\ wProcessing = {}
    /\ wPc = <<>>
    /\ wRuns = <<>>

AuxIdle ==
    /\ WatchIdle
    /\ ConfigIdle
    /\ HealthIdle
    /\ DeadlineIdle
    /\ ExtractIdle
    /\ ValidateIdle
    /\ RedactIdle
    /\ SignIdle
    /\ AuditIdle

DedupIdle ==
    /\ dInput = <<>>
    /\ dOutput = <<>>
    /\ dpc = "idle"

PipeIdle ==
    /\ file = <<>>
    /\ pc = "idle"
    /\ started = <<>>
    /\ finished = <<>>
    /\ fsProcessing = {}
    /\ fsError = {}
    /\ fsProcessed = {}
    /\ fsSigned = {}
    /\ pDoc = <<>>
    /\ searched = <<>>
    /\ rects = <<>>
    /\ logCalls = <<>>
    /\ jobsTable = {}
    /\ result = <<>>

DetectIdle ==
    /\ tText = <<>>
    /\ tNer = FALSE
    /\ tEntities = <<>>
    /\ tpc = "idle"

InitResolve ==
    /\ AuxIdle
    /\ DedupIdle
    /\ DetectIdle
    /\ PipeIdle
    /\ rawPage \in RawPages
    /\ pages = <<>>
    /\ truth = <<>>
    /\ detected = <<>>
    /\ entities = <<>>
    /\ rpc = "extract"

\* extractor.extract on a one-page PDF
RExtract ==
    /\ rpc = "extract"
    /\ \E ocrAvailable \in BOOLEAN, ocrData \in OcrTables :
          LET p == ExtractPdfPage(rawPage, 0, ocrAvailable, ocrData)
          IN  /\ pages' = <<p>>
              /\ truth' = IF p.ocr_used THEN TruePositions(p.blocks)
                          ELSE TruePositions(PlaceholderBlocks(rawPage, 0))
    /\ rpc' = "detect"
    /\ UNCHANGED <<rawPage, detected, entities>>
    /\ UNCHANGED <<dedupVars, detectVars, pipeVars, auxVars>>

\* an entity on the page text, as a detector reports it (or one that already
\* carries a bbox)
RDetect ==
    /\ rpc = "detect"
    /\ \E s \in 0..(Len(pages[1].text) - 1), pre \in {NoBBox, PresetBBox} :
          \E e \in (s + 1)..Min(s + MaxEntLen, Len(pages[1].text)) :
             /\ detected' = <<[text |-> Slice(pages[1].text, s, e), start |-> s,
                               end |-> e, page |-> pages[1].page_number,
                               bbox |-> pre]>>
             /\ entities' = detected'
    /\ rpc' = "resolve"
    /\ UNCHANGED <<rawPage, pages, truth>>
    /\ UNCHANGED <<dedupVars, detectVars, pipeVars, auxVars>>

\* pipeline.py 94-116
RResolve ==
    /\ rpc = "resolve"
    /\ entities' = ResolveAll(entities, pages)
    /\ rpc' = "done"
    /\ UNCHANGED <<rawPage, pages, truth, detected>>
    /\ UNCHANGED <<dedupVars, detectVars, pipeVars, auxVars>>

NextResolve == RExtract \/ RDetect \/ RResolve

SpecResolve == InitResolve /\ [][NextResolve]_vars

(***************************************************************************)
(* Properties of the resolver.                                             *)
(***************************************************************************)
\* the blocks (by index) whose character range overlaps [start, end)
Overlapping(blocks, start, end) ==
    {j \in 1..Len(blocks) : blocks[j].char_end > start /\ blocks[j].char_start < end}

\* the bbox the resolver is to give an entity that has none
ReferenceBBox(blocks, start, end) ==
    LET O == Overlapping(blocks, start, end)
    IN  IF O = {} THEN NoBBox
        ELSE IF Cardinality(O) = 1 THEN blocks[CHOOSE j \in O : TRUE].bbox
        ELSE <<SetMin({blocks[j].bbox[1] : j \in O}), SetMin({blocks[j].bbox[2] : j \in O}),
               SetMax({blocks[j].bbox[3] : j \in O}), SetMax({blocks[j].bbox[4] : j \in O})>>

RectContains(outer, inner) ==
    /\ outer[1] <= inner[1]
    /\ outer[2] <= inner[2]
    /\ outer[3] >= inner[3]
    /\ outer[4] >= inner[4]

\* C6: after the resolver, an entity that had no bbox carries the reference
\* bbox of its range -- unset when no block overlaps it, the block's rectangle
\* when one does, the union of ALL overlapping blocks' rectangles otherwise --
\* and an entity that had a bbox keeps it; nothing else of the entity changes.
C6_ResolverMatchesReference ==
    rpc = "done" =>
        \A i \in 1..Len(entities) :
            /\ entities[i] = [detected[i] EXCEPT !.bbox = entities[i].bbox]
            /\ IF detected[i].bbox # NoBBox
               THEN entities[i].bbox = detected[i].bbox
               ELSE entities[i].bbox =
                        ReferenceBBox(pages[1].blocks, detected[i].start, detected[i].end)

\* C6 witness: a resolved entity on a native page that overlaps several
\* blocks, where the loop broke off before a later block
C6_Witness ==
    /\ rpc = "done"
    /\ ~pages[1].ocr_used
    /\ detected[1].bbox = NoBBox
    /\ Cardinality(Overlapping(pages[1].blocks, detected[1].start, detected[1].end)) >= 2
    /\ \E j \in 1..Len(pages[1].blocks) : pages[1].blocks[j].char_start >= detected[1].end
    /\ entities[1].bbox # NoBBox

\* C7: on a native page, the bbox the resolver gives an entity contains the
\* rectangle of every span whose text stands, at its true position in the
\* page text, inside the entity's range.
C7_NeverUnderRedacts ==
    (rpc = "done" /\ ~pages[1].ocr_used) =>
        \A i \in 1..Len(entities) :
            (detected[i].bbox = NoBBox /\ entities[i].bbox # NoBBox) =>
                \A j \in 1..Len(truth) :
                    (truth[j][2] > entities[i].start /\ truth[j][1] < entities[i].end)
                        => RectContains(entities[i].bbox, pages[1].blocks[j].bbox)

(***************************************************************************)
(* SpecDedup: one call of _deduplicate on a list of entities, each with    *)
(* start < end.                                                            *)
(***************************************************************************)
ConfLevels == {95, 100}

DedupEntities ==
    {[start |-> r[1], end |-> r[2], confidence |-> c] :
        r \in {q \in (0..MaxPos) \X (0..MaxPos) : q[1] < q[2]}, c \in ConfLevels}

DedupInputs ==
    UNION {{[i \in 1..n |-> [start |-> f[i].start, end |-> f[i].end,
                             confidence |-> f[i].confidence, idx |-> i]] :
                f \in [1..n -> DedupEntities]} : n \in 0..MaxEnts}

ResolveIdle ==
    /\ rawPage = <<>>
    /\ pages = <<>>
    /\ truth = <<>>
    /\ detected = <<>>
    /\ entities = <<>>
    /\ rpc = "idle"

InitDedup ==
    /\ AuxIdle
    /\ ResolveIdle
    /\ DetectIdle
    /\ PipeIdle
    /\ dInput \in DedupInputs
    /\ dOutput = <<>>
    /\ dpc = "call"

DCall ==
    /\ dpc = "call"
    /\ dOutput' = Deduplicate(dInput)
    /\ dpc' = "done"
    /\ UNCHANGED dInput
    /\ UNCHANGED <<resolveVars, detectVars, pipeVars, auxVars>>

NextDedup == DCall

SpecDedup == InitDedup /\ [][NextDedup]_vars

(***************************************************************************)
(* Properties of _deduplicate.                                             *)
(***************************************************************************)
Elements(seq) == {seq[i] : i \in 1..Len(seq)}

\* the order of the sort: start ascending, confidence descending, and the
\* order of the list passed in between entities equal in both
Before(a, b) ==
    \/ a.start < b.start
    \/ (a.start = b.start /\ a.confidence > b.confidence)
    \/ (a.start = b.start /\ a.confidence = b.confidence /\ a.idx < b.idx)

\* the last, in that order, of a non-empty set of entities
LastOf(S) == CHOOSE k \in S : \A m \in S \ {k} : Before(m, k)

\* C8: no two distinct entities of the returned list overlap, adjacent in
\* the list or not.
C8_NoOverlapAnyPair ==
    dpc = "done" =>
        \A i, j \in 1..Len(dOutput) :
            i # j => (dOutput[i].end <= dOutput[j].start \/ dOutput[j].end <= dOutput[i].start)

\* C8 witness: a call that kept two entities and dropped one lying between them
C8_Witness ==
    /\ dpc = "done"
    /\ Len(dOutput) >= 2
    /\ \E e \in Elements(dInput) \ Elements(dOutput) :
          /\ e.start < dOutput[1].end
          /\ e.end <= dOutput[2].start

\* C9: the returned list is the greedy selection over the entities ordered
\* by (start ascending, confidence descending): it is ordered by strictly
\* increasing start, the first entity of the order is kept, and a later one
\* is kept iff its start is >= the end of the most recently kept one; so of
\* the entities with one start only a highest-confidence one can survive.
C9_GreedySelection ==
    dpc = "done" =>
        LET In == Elements(dInput)
            Out == Elements(dOutput)
        IN  /\ Out \subseteq In
            /\ Cardinality(Out) = Len(dOutput)
            /\ \A i, j \in 1..Len(dOutput) : i < j => dOutput[i].start < dOutput[j].start
            /\ \A e \in In :
                  LET P == {k \in Out : Before(k, e)}
                  IN  e \in Out <=> (P = {} \/ e.start >= LastOf(P).end)
            /\ \A e \in Out, f \in In : f.start = e.start => f.confidence <= e.confidence

\* C9 witness: a call where the higher-confidence of two entities with one
\* start came second in the list and survived alone, and an entity starting
\* at its end was kept too
C9_Witness ==
    /\ dpc = "done"
    /\ \E e, f \in Elements(dInput) :
          /\ e.start = f.start
          /\ e.confidence > f.confidence
          /\ e.idx > f.idx
          /\ e \in Elements(dOutput)
          /\ f \notin Elements(dOutput)
          /\ \E g \in Elements(dOutput) : g.start = e.end

\* C25: whenever _deduplicate drops an entity that overlaps one it keeps,
\* the kept one has confidence greater than or equal to that of the dropped
\* one, wherever the two start.
C25_SurvivorHasHigherConfidence ==
    dpc = "done" =>
        \A d \in Elements(dInput) \ Elements(dOutput), s \in Elements(dOutput) :
            (d.start < s.end /\ s.start < d.end) => s.confidence >= d.confidence

(***************************************************************************)
(* SpecDetect: one call of PIIDetector.detect.  The page text is put       *)
(* together from a few pieces; the tagger's answers are inputs.            *)
(***************************************************************************)
Pad == [i \in 1..CHUNK_SIZE |-> "x"]

TextTokens ==
    {<<"1", "2", "3", "-", "4", "5", "-", "6", "7", "8", "9">>,
     <<"B", "o", "b">>, <<" ">>, Pad}

RECURSIVE Concat(_)
Concat(parts) == IF parts = <<>> THEN <<>> ELSE Head(parts) \o Concat(Tail(parts))

PageTexts == UNION {{Concat(f) : f \in [1..n -> TextTokens]} : n \in 0..MaxTokens}

\* the uncased tokenizer's rendering of a stretch of text
Lower(str) == [i \in 1..Len(str) |-> IF str[i] \in Upper THEN LowerOf[str[i]] ELSE str[i]]

\* the words of a chunk: its maximal stretches without whitespace, as
\* <<start, end>> within the chunk
WordSpans(chunk) ==
    LET starts == {b \in 0..(Len(chunk) - 1) :
                      ~IsSpace(chunk[b + 1]) /\ (b = 0 \/ IsSpace(chunk[b]))}
        EndOf(b) == SetMin({e \in (b + 1)..Len(chunk) :
                               e = Len(chunk) \/ IsSpace(chunk[e + 1])})
    IN  {<<b, EndOf(b)>> : b \in starts}

\* what self._ner(chunk) can answer: it raises, finds nothing, or reports
\* one word of the chunk (of at most MaxNerWord characters) under a label
\* and a score
TaggerAnswers(chunk) ==
    {[raised |-> TRUE, results |-> <<>>], [raised |-> FALSE, results |-> <<>>]}
    \cup {[raised |-> FALSE,
           results |-> <<[entity_group |-> g, word |-> Lower(Slice(chunk, w[1], w[2])),
                          start |-> w[1], end |-> w[2], score |-> sc]>>] :
            g \in {"PER", "MISC"},
            w \in {v \in WordSpans(chunk) : v[2] - v[1] <= MaxNerWord},
            sc \in {85, 95}}

\* one answer for every chunk of the text from chunk_start on
RECURSIVE AnswersFrom(_, _)
AnswersFrom(text, chunk_start) ==
    IF chunk_start >= Len(text) THEN {<<>>}
    ELSE {(chunk_start :> t) @@ a :
             t \in TaggerAnswers(Slice(text, chunk_start, chunk_start + CHUNK_SIZE)),
             a \in AnswersFrom(text, chunk_start + CHUNK_SIZE)}

AnswersFor(text) == AnswersFrom(text, 0)

InitDetect ==
    /\ AuxIdle
    /\ ResolveIdle
    /\ DedupIdle
    /\ PipeIdle
    /\ tText \in PageTexts
    /\ tNer \in BOOLEAN
    /\ tEntities = <<>>
    /\ tpc = "call"

TDetect ==
    /\ tpc = "call"
    /\ \E answers \in AnswersFor(tText) :
          tEntities' = Detect(tText, 0, tNer, answers)
    /\ tpc' = "done"
    /\ UNCHANGED <<tText, tNer>>
    /\ UNCHANGED <<resolveVars, dedupVars, pipeVars, auxVars>>

NextDetect == TDetect

SpecDetect == InitDetect /\ [][NextDetect]_vars

\* C10: every entity detect returns lies inside the page text, is not
\* empty, and its text is the page text between its start and its end.
C10_EntityIsTextSlice ==
    tpc = "done" =>
        \A i \in 1..Len(tEntities) :
            /\ 0 <= tEntities[i].start
            /\ tEntities[i].start < tEntities[i].end
            /\ tEntities[i].end <= Len(tText)
            /\ Slice(tText, tEntities[i].start, tEntities[i].end) = tEntities[i].text

(***************************************************************************)
(* signer.py, logger.py and the file system, as Pipeline.run uses them.    *)
(***************************************************************************)
JOB_ID == "job1"

\* file_path.name
FileName(f) == <<f.stem, f.suffix>>

\* pipeline.py 124: f"{job_id}_redacted.pdf"
RedactedName(job_id) == <<job_id, "_redacted.pdf">>

\* pipeline.py 130: f"{job_id}_signed.pdf"
SignedName(job_id) == <<job_id, "_signed.pdf">>

\* a variant of reject that copies the file instead of moving it
RejectCopies(dirs, f) ==
    [processing |-> dirs.processing, error |-> dirs.error \cup {FileName(f)}]

\* validator.py 54-59: shutil.move(file_path, error_dir / file_path.name)
Reject(dirs, f) ==
    [processing |-> dirs.processing \ {FileName(f)},
     error |-> dirs.error \cup {FileName(f)}]

\* a variant of the insert that adds the row without replacing the job's
\* earlier one
LogInsertOnly(table, res) ==
    table
    \cup {[job_id |-> res.job_id, filename |-> res.filename, status |-> res.status,
           entity_count |-> res.entity_count, output_path |-> res.output_path,
           error |-> res.error]}

\* logger.py 49-80: INSERT OR REPLACE INTO jobs, keyed by job_id
Log(table, res) ==
    {r \in table : r.job_id # res.job_id}
    \cup {[job_id |-> res.job_id, filename |-> res.filename, status |-> res.status,
           entity_count |-> res.entity_count, output_path |-> res.output_path,
           error |-> res.error]}

\* logger.py 82-88: the job's row as <<row>>, or <<>> for None
GetJob(table, job_id) ==
    IF \E r \in table : r.job_id = job_id
    THEN <<CHOOSE r \in table : r.job_id = job_id>>
    ELSE <<>>

RECURSIVE SumEntityCount(_)
SumEntityCount(rows) ==
    IF rows = {} THEN 0
    ELSE LET r == CHOOSE x \in rows : TRUE
         IN  r.entity_count + SumEntityCount(rows \ {r})

\* logger.py 96-97: SUM(CASE WHEN status = ... THEN 1 ELSE 0 END), which is
\* NULL (<<>>) over no rows
SqlSumCase(rows, status) ==
    IF rows = {} THEN <<>> ELSE <<Cardinality({r \in rows : r.status = status})>>

\* logger.py 98: SUM(entity_count), NULL (<<>>) over no rows
SqlSumEntities(rows) == IF rows = {} THEN <<>> ELSE <<SumEntityCount(rows)>>

\* logger.py 105-108: row[i] or 0
OrZero(v) == IF v = <<>> THEN 0 ELSE v[1]

\* a variant of the statistics whose completed count takes every row
GetStatsCountsEveryRow(table) ==
    [total_jobs |-> OrZero(<<Cardinality(table)>>),
     completed |-> OrZero(<<Cardinality(table)>>),
     failed |-> OrZero(SqlSumCase(table, "failed")),
     total_entities_detected |-> OrZero(SqlSumEntities(table))]

\* logger.py 90-110
GetStats(table) ==
    [total_jobs |-> OrZero(<<Cardinality(table)>>),
     completed |-> OrZero(SqlSumCase(table, "completed")),
     failed |-> OrZero(SqlSumCase(table, "failed")),
     total_entities_detected |-> OrZero(SqlSumEntities(table))]

\* a variant of the lock that lets a thread in while another holds it
AcquirableAlways(lock) == TRUE

\* logger.py 54: threading.Lock lets a thread in only when no thread holds it
Acquirable(lock) == lock = 0

\* a variant of the stage sequence that signs before it redacts
NextStageSignsFirst(stage) ==
    CASE stage = "validate" -> "extract"
      [] stage = "extract" -> "detect"
      [] stage = "detect" -> "resolve"
      [] stage = "resolve" -> "sign"
      [] stage = "sign" -> "redact"
      [] stage = "redact" -> "audit"
      [] stage = "audit" -> "returned"

\* pipeline.py 58-152: the stage that follows a stage that returned
NextStage(stage) ==
    CASE stage = "validate" -> "extract"
      [] stage = "extract" -> "detect"
      [] stage = "detect" -> "resolve"
      [] stage = "resolve" -> "redact"
      [] stage = "redact" -> "sign"
      [] stage = "sign" -> "audit"
      [] stage = "audit" -> "returned"

\* pipeline.py 86-88: detect on every page, the lists concatenated
RECURSIVE DetectAll(_, _, _, _)
DetectAll(ps, i, ner_loaded, answers) ==
    IF i > Len(ps) THEN <<>>
    ELSE Detect(ps[i].text, ps[i].page_number, ner_loaded, answers[i])
         \o DetectAll(ps, i + 1, ner_loaded, answers)

(***************************************************************************)
(* Spec: one Pipeline.run on one file dropped into the processing          *)
(* directory.  The file, the document's pages, the OCR engine's and the    *)
(* tagger's answers, the text search's answers and the failures of the     *)
(* stages are the inputs.                                                  *)
(***************************************************************************)
Suffixes == {".pdf", ".PDF", ".png", ".exe"}

Mimes == {"application/pdf", "image/png", "text/plain", "raise"}

Sizes == {1024, MaxSizeBytes, MaxSizeBytes + 1}

MaxDocPages == 2

PageCounts == (1..MaxDocPages) \cup {MAX_PDF_PAGES + 1}

Files ==
    [stem : {"doc"}, suffix : Suffixes, mime : Mimes, size : Sizes,
     openable : BOOLEAN, encrypted : BOOLEAN, page_count : PageCounts]

SsnText == <<"1", "2", "3", "-", "4", "5", "-", "6", "7", "8", "9">>

BobText == <<"B", "o", "b">>

\* a page that names Bob twice, a page that holds one SSN twice, and a
\* scanned page (its text layer is too short to be used)
DocPages ==
    {<<[raw |-> BobText, nl |-> TRUE], [raw |-> BobText, nl |-> FALSE],
       [raw |-> Filler, nl |-> FALSE]>>,
     <<[raw |-> SsnText, nl |-> TRUE], [raw |-> SsnText, nl |-> FALSE]>>,
     <<[raw |-> BobText, nl |-> TRUE]>>}

DocOcrTables ==
    {<<>>,
     <<[text |-> SsnText, left |-> 250, top |-> 50, width |-> 200, height |-> 25]>>}

OcrAnswers == [available : BOOLEAN, data : DocOcrTables]

\* len(doc) as fitz.open reports it: an image opens as a one-page document
DocPageCount(f) == IF SuffixLower(f.suffix) = ".pdf" THEN f.page_count ELSE 1

\* one tagger answer set per page
AnswerSeqs(ps) ==
    {a \in [1..Len(ps) -> UNION {AnswersFor(ps[i].text) : i \in 1..Len(ps)}] :
        \A i \in 1..Len(ps) : a[i] \in AnswersFor(ps[i].text)}

FoundRects == {<<>>, <<<<0, 10, 8, 18>>>>, <<<<0, 10, 8, 18>>, <<10, 10, 18, 18>>>>}

\* one page.search_for answer per entity the redactor searches for
SearchAnswers(ents, doc_pages) ==
    {a \in [1..Len(ents) -> FoundRects] :
        \A i \in 1..Len(ents) : i \notin NeedSearch(ents, doc_pages) => a[i] = <<>>}

otherVars == <<rawPage, truth, rpc, dedupVars, tText, tEntities, tpc, auxVars>>

Init ==
    /\ AuxIdle
    /\ DedupIdle
    /\ rawPage = <<>>
    /\ truth = <<>>
    /\ rpc = "idle"
    /\ tText = <<>>
    /\ tEntities = <<>>
    /\ tpc = "idle"
    /\ tNer \in BOOLEAN
    /\ pages = <<>>
    /\ detected = <<>>
    /\ entities = <<>>
    /\ file \in Files
    /\ pc = "validate"
    /\ started = <<>>
    /\ finished = <<>>
    /\ fsProcessing = {FileName(file)}
    /\ fsError = {}
    /\ fsProcessed = {}
    /\ fsSigned = {}
    /\ pDoc = <<>>
    /\ searched = <<>>
    /\ rects = <<>>
    /\ logCalls = <<>>
    /\ jobsTable = {}
    /\ result = <<>>

\* pipeline.py 64-66: validate returns
PValidateOk ==
    /\ pc = "validate"
    /\ Validate(file) = "OK"
    /\ started' = Append(started, "validate")
    /\ finished' = Append(finished, "validate")
    /\ pc' = NextStage("validate")
    /\ UNCHANGED <<file, fsProcessing, fsError, fsProcessed, fsSigned, pDoc, searched,
                   rects, logCalls, jobsTable, result>>
    /\ UNCHANGED <<pages, detected, entities, tNer, otherVars>>

\* pipeline.py 67-76: validate raises ValidationError
PValidateReject ==
    /\ pc = "validate"
    /\ Validate(file) # "OK"
    /\ started' = Append(started, "validate")
    /\ LET dirs == Reject([processing |-> fsProcessing, error |-> fsError], file)
       IN  /\ fsProcessing' = dirs.processing
           /\ fsError' = dirs.error
    /\ result' = <<[job_id |-> JOB_ID, filename |-> FileName(file), status |-> "failed",
                    entity_count |-> 0, entities |-> <<>>, output_path |-> <<>>,
                    error |-> Validate(file)]>>
    /\ pc' = "returned"
    /\ UNCHANGED <<file, finished, fsProcessed, fsSigned, pDoc, searched, rects,
                   logCalls, jobsTable>>
    /\ UNCHANGED <<pages, detected, entities, tNer, otherVars>>

\* pipeline.py 78-81
PExtract ==
    /\ pc = "extract"
    /\ started' = Append(started, "extract")
    /\ \E doc \in [1..DocPageCount(file) -> DocPages],
          ocr \in [1..DocPageCount(file) -> OcrAnswers] :
          /\ pDoc' = doc
          /\ pages' = Extract(file.suffix, doc, ocr)
    /\ finished' = Append(finished, "extract")
    /\ pc' = NextStage("extract")
    /\ UNCHANGED <<file, fsProcessing, fsError, fsProcessed, fsSigned, searched, rects,
                   logCalls, jobsTable, result>>
    /\ UNCHANGED <<detected, entities, tNer, otherVars>>

\* pipeline.py 83-89
PDetect ==
    /\ pc = "detect"
    /\ started' = Append(started, "detect")
    /\ \E answers \in AnswerSeqs(pages) :
          /\ detected' = DetectAll(pages, 1, tNer, answers)
          /\ entities' = detected'
    /\ finished' = Append(finished, "detect")
    /\ pc' = NextStage("detect")
    /\ UNCHANGED <<file, fsProcessing, fsError, fsProcessed, fsSigned, pDoc, searched,
                   rects, logCalls, jobsTable, result>>
    /\ UNCHANGED <<pages, tNer, otherVars>>

\* pipeline.py 94-120
PResolve ==
    /\ pc = "resolve"
    /\ started' = Append(started, "resolve")
    /\ entities' = ResolveAll(entities, pages)
    /\ finished' = Append(finished, "resolve")
    /\ pc' = NextStage("resolve")
    /\ UNCHANGED <<file, fsProcessing, fsError, fsProcessed, fsSigned, pDoc, searched,
                   rects, logCalls, jobsTable, result>>
    /\ UNCHANGED <<pages, detected, tNer, otherVars>>

\* pipeline.py 122-126
PRedact ==
    /\ pc = "redact"
    /\ started' = Append(started, "redact")
    /\ \E search \in SearchAnswers(entities, DocPageCount(file)) :
          /\ searched' = search
          /\ rects' = Redact(entities, DocPageCount(file), search)
    /\ fsProcessed' = fsProcessed \cup {RedactedName(JOB_ID)}
    /\ finished' = Append(finished, "redact")
    /\ pc' = NextStage("redact")
    /\ UNCHANGED <<file, fsProcessing, fsError, fsSigned, pDoc, logCalls, jobsTable,
                   result>>
    /\ UNCHANGED <<pages, detected, entities, tNer, otherVars>>

\* pipeline.py 128-132; signer.py 30-59
PSign ==
    /\ pc = "sign"
    /\ started' = Append(started, "sign")
    /\ RedactedName(JOB_ID) \in fsProcessed
    /\ fsSigned' = fsSigned \cup {SignedName(JOB_ID)}
    /\ finished' = Append(finished, "sign")
    /\ pc' = NextStage("sign")
    /\ UNCHANGED <<file, fsProcessing, fsError, fsProcessed, pDoc, searched, rects,
                   logCalls, jobsTable, result>>
    /\ UNCHANGED <<pages, detected, entities, tNer, otherVars>>

\* pipeline.py 134-152
PAudit ==
    /\ pc = "audit"
    /\ started' = Append(started, "audit")
    /\ LET res == [job_id |-> JOB_ID, filename |-> FileName(file),
                   status |-> "completed", entity_count |-> Len(entities),
                   entities |-> entities, output_path |-> SignedName(JOB_ID),
                   error |-> "None"]
       IN  /\ logCalls' = Append(logCalls, res)
           /\ jobsTable' = Log(jobsTable, res)
           /\ result' = <<res>>
    /\ finished' = Append(finished, "audit")
    /\ pc' = NextStage("audit")
    /\ UNCHANGED <<file, fsProcessing, fsError, fsProcessed, fsSigned, pDoc, searched,
                   rects>>
    /\ UNCHANGED <<pages, detected, entities, tNer, otherVars>>

\* a stage after validation raises: extract and redact when the document
\* cannot be read (fitz.open), sign when the redacted file cannot be read or
\* the signed one not written, audit when the store rejects the insert; the
\* exception leaves run (no handler in pipeline.py 78-152)
PStageRaises ==
    /\ pc \in {"extract", "redact", "sign", "audit"}
    /\ started' = Append(started, pc)
    /\ pc' = "raised"
    /\ UNCHANGED <<file, finished, fsProcessing, fsError, fsProcessed, fsSigned, pDoc,
                   searched, rects, logCalls, jobsTable, result>>
    /\ UNCHANGED <<pages, detected, entities, tNer, otherVars>>

Next ==
    \/ PValidateOk
    \/ PValidateReject
    \/ PExtract
    \/ PDetect
    \/ PResolve
    \/ PRedact
    \/ PSign
    \/ PAudit
    \/ PStageRaises

Spec == Init /\ [][Next]_vars

(***************************************************************************)
(* Properties of Pipeline.run.                                             *)
(***************************************************************************)
Terminated == pc \in {"returned", "raised"}

\* C1: when run has ended -- returned COMPLETED, returned FAILED after a
\* validation rejection, or left by a later stage's exception --
\* AuditLogger.log has been called exactly once for the job and the jobs
\* table holds exactly one row for it.
C1_OneAuditRecordPerRun ==
    Terminated =>
        /\ Len(SelectSeq(logCalls, LAMBDA r : r.job_id = JOB_ID)) = 1
        /\ Cardinality({r \in jobsTable : r.job_id = JOB_ID}) = 1

\* C2: when run has returned COMPLETED, every entity of the result has had
\* a redaction annotation added on its page.
C2_EveryEntityRedacted ==
    (pc = "returned" /\ result[1].status = "completed") =>
        \A i \in 1..Len(result[1].entities) :
            \E k \in 1..Len(rects) :
                /\ rects[k].entity = i
                /\ rects[k].page = result[1].entities[i].page

\* the reason of the first gate the file fails, in the validator's order
FirstFailingGate(f) ==
    CASE SuffixLower(f.suffix) \notin ALLOWED_EXTENSIONS -> "extension not allowed"
      [] SuffixLower(f.suffix) \in ALLOWED_EXTENSIONS /\ f.mime = "raise" ->
            "MIME detection failed"
      [] SuffixLower(f.suffix) \in ALLOWED_EXTENSIONS /\ f.mime \notin ALLOWED_MIMES
            /\ f.mime # "raise" -> "MIME type not allowed"
      [] OTHER ->
            IF f.size > MaxSizeBytes THEN "file too large"
            ELSE IF ~f.openable THEN "cannot open PDF"
            ELSE IF f.encrypted THEN "PDF is encrypted"
            ELSE "too many pages"

\* C3: when validate raised ValidationError, the file has left the
\* processing directory and stands in the error directory under its own
\* name, run returned FAILED with the failing gate's reason as error, and
\* no later stage started: no text extracted, no entity, no annotation, no
\* redacted and no signed file.
C3_ValidationReject ==
    (started = <<"validate">> /\ finished = <<>>) =>
        /\ pc = "returned"
        /\ FileName(file) \notin fsProcessing
        /\ fsError = {FileName(file)}
        /\ result[1].status = "failed"
        /\ result[1].job_id = JOB_ID
        /\ result[1].error = FirstFailingGate(file)
        /\ pages = <<>> /\ detected = <<>> /\ entities = <<>> /\ rects = <<>>
        /\ RedactedName(JOB_ID) \notin fsProcessed
        /\ SignedName(JOB_ID) \notin fsSigned

\* C3 witness: an encrypted PDF that passed the first three gates was
\* rejected
C3_Witness ==
    /\ started = <<"validate">>
    /\ finished = <<>>
    /\ pc = "returned"
    /\ file.suffix = ".pdf" /\ file.openable /\ file.encrypted
    /\ result[1].error = "PDF is encrypted"

\* C4: when a stage after validation raised, neither the job's redacted
\* file nor its signed file exists.
C4_NoArtifactAfterRaise ==
    pc = "raised" =>
        /\ RedactedName(JOB_ID) \notin fsProcessed
        /\ SignedName(JOB_ID) \notin fsSigned

StageOrder == <<"validate", "extract", "detect", "resolve", "redact", "sign", "audit">>

\* C5: the stages start in the order validate, extract, detect, resolve,
\* redact, sign, audit, each only after the one before it returned; a
\* signed file exists only if the redacted one does, and the COMPLETED row
\* is in the audit store only if the signed file exists.
C5_StagesInOrder ==
    /\ Len(started) <= Len(StageOrder)
    /\ \A i \in 1..Len(started) : started[i] = StageOrder[i]
    /\ Len(finished) <= Len(started)
    /\ Len(started) <= Len(finished) + 1
    /\ \A i \in 1..Len(finished) : finished[i] = started[i]
    /\ SignedName(JOB_ID) \in fsSigned =>
          (RedactedName(JOB_ID) \in fsProcessed /\ Len(finished) >= 6)
    /\ RedactedName(JOB_ID) \in fsProcessed => Len(finished) >= 5
    /\ (\E r \in jobsTable : r.status = "completed") =>
          (SignedName(JOB_ID) \in fsSigned /\ finished = StageOrder)

\* C5 witness: a run that went through all seven stages and returned
\* COMPLETED with an entity redacted
C5_Witness ==
    /\ pc = "returned"
    /\ finished = StageOrder
    /\ result[1].status = "completed"
    /\ Len(rects) >= 1
    /\ SignedName(JOB_ID) \in fsSigned

(***************************************************************************)
(* SpecExtract: one page goes through the extractor, as a page of a PDF    *)
(* (native text or OCR fallback) or as a standalone image.                 *)
(***************************************************************************)
Nine == [i \in 1..9 |-> "d"]

ExtractSpanTexts == RawSpanTexts \cup {Nine}

ExtractRawPages ==
    UNION {{[k \in 1..n |-> [raw |-> t[k], nl |-> (k = 1 \/ b[k])]] :
                t \in [1..n -> ExtractSpanTexts], b \in [1..n -> BOOLEAN]} :
           n \in 1..MaxSpans}

CoreIdle ==
    /\ ResolveIdle
    /\ DedupIdle
    /\ DetectIdle
    /\ PipeIdle

InitExtract ==
    /\ CoreIdle
    /\ WatchIdle
    /\ ConfigIdle
    /\ HealthIdle
    /\ DeadlineIdle
    /\ ValidateIdle
    /\ RedactIdle
    /\ SignIdle
    /\ AuditIdle
    /\ \/ xKind = "pdf" /\ xRaw \in ExtractRawPages
       \/ xKind = "image" /\ xRaw = <<>>
    /\ xOcr \in [available : BOOLEAN, data : OcrTables]
    /\ xPage = <<>>
    /\ xpc = "extract"

\* extractor.py 83-147 for the page of a PDF, 222-268 for an image
XExtract ==
    /\ xpc = "extract"
    /\ xPage' = <<IF xKind = "pdf"
                  THEN ExtractPdfPage(xRaw, 0, xOcr.available, xOcr.data)
                  ELSE ExtractImage(xOcr.available, xOcr.data)>>
    /\ xpc' = "done"
    /\ UNCHANGED <<xKind, xRaw, xOcr>>
    /\ UNCHANGED <<coreVars, validateVars, redactVars, signVars, auditVars,
                 deadlineVars, healthVars, configVars, watchVars>>

NextExtract == XExtract

SpecExtract == InitExtract /\ [][NextExtract]_vars

\* C11: on every page the extractor produces (native, OCR fallback, image)
\* the blocks' char_start never decreases along the list.
C11_CharStartNonDecreasing ==
    xpc = "done" =>
        \A i \in 1..(Len(xPage[1].blocks) - 1) :
            xPage[1].blocks[i].char_start <= xPage[1].blocks[i + 1].char_start

\* C11 witness: a native page on which the search for a later span's text
\* matched at the cursor (two blocks start at the same offset) and a further
\* block follows
C11_Witness ==
    /\ xpc = "done"
    /\ xKind = "pdf"
    /\ ~xPage[1].ocr_used
    /\ Len(xPage[1].blocks) = 3
    /\ xPage[1].blocks[1].char_start = xPage[1].blocks[2].char_start
    /\ xPage[1].blocks[2].char_start < xPage[1].blocks[3].char_start

\* C12: every block's range holds the block's text in the page text, so the
\* range is as long as the text; on the PDF path the forward search finds
\* every span's text.
C12_BlockRangeHoldsText ==
    xpc = "done" =>
        /\ \A i \in 1..Len(xPage[1].blocks) :
              LET b == xPage[1].blocks[i]
              IN  /\ 0 <= b.char_start
                  /\ b.char_end <= Len(xPage[1].text)
                  /\ b.char_end - b.char_start = Len(b.text)
                  /\ Slice(xPage[1].text, b.char_start, b.char_end) = b.text
        /\ (xKind = "pdf" /\ ~xPage[1].ocr_used) =>
              \A i \in 1..Len(xPage[1].blocks) :
                  Find(xPage[1].text, xPage[1].blocks[i].text,
                       IF i = 1 THEN 0 ELSE xPage[1].blocks[i - 1].char_start) >= 0

\* C12 witness: an OCR page of two words, the second one after the separator
C12_Witness ==
    /\ xpc = "done"
    /\ xPage[1].ocr_used
    /\ Len(xPage[1].blocks) = 2
    /\ xPage[1].blocks[2].char_start = Len(xPage[1].blocks[1].text) + 1

\* the characters of a text that are not whitespace
NonWhitespace(text) == Cardinality({i \in 1..Len(text) : ~IsSpace(text[i])})

\* the length of a text between its first and its last non-whitespace
\* character
TrimmedLen(text) ==
    LET ink == {i \in 1..Len(text) : ~IsSpace(text[i])}
    IN  IF ink = {} THEN 0 ELSE SetMax(ink) - SetMin(ink) + 1

\* where a PDF page's blocks came from
BlocksFromOcr ==
    xPage[1].blocks = IF xOcr.available THEN OcrBlocksFrom(xOcr.data, 0, 0) ELSE <<>>

\* C13 as stated: a PDF page goes to OCR exactly when its native text has
\* fewer than 20 non-whitespace characters.
C13_OcrIffFewNonWhitespace ==
    (xpc = "done" /\ xKind = "pdf") =>
        /\ xPage[1].ocr_used <=> NonWhitespace(FullText(xRaw)) < MIN_TEXT_THRESHOLD
        /\ xPage[1].ocr_used => BlocksFromOcr

\* C13 amended: a PDF page goes to OCR exactly when its native text, without
\* leading and trailing whitespace, is shorter than 20 characters; the spaces
\* and newlines that join spans and lines count.
C13_OcrIffShortTrimmedText ==
    (xpc = "done" /\ xKind = "pdf") =>
        /\ xPage[1].ocr_used <=> TrimmedLen(FullText(xRaw)) < MIN_TEXT_THRESHOLD
        /\ xPage[1].ocr_used => BlocksFromOcr
        /\ ~xPage[1].ocr_used => xPage[1].text = FullText(xRaw)

\* C13 witness: a page kept native although it has fewer than 20
\* non-whitespace characters
C13_Witness ==
    /\ xpc = "done"
    /\ xKind = "pdf"
    /\ ~xPage[1].ocr_used
    /\ NonWhitespace(FullText(xRaw)) < MIN_TEXT_THRESHOLD
    /\ Len(xPage[1].blocks) >= 2

(***************************************************************************)
(* SpecValidate: one call of FileValidator.validate on one file.           *)
(***************************************************************************)
ValidatePageCounts == {1, MAX_PDF_PAGES, MAX_PDF_PAGES + 1}

ValidateFiles ==
    [stem : {"doc"}, suffix : Suffixes, mime : Mimes, size : Sizes,
     openable : BOOLEAN, encrypted : BOOLEAN, page_count : ValidatePageCounts]

InitValidate ==
    /\ CoreIdle
    /\ WatchIdle
    /\ ConfigIdle
    /\ HealthIdle
    /\ DeadlineIdle
    /\ ExtractIdle
    /\ RedactIdle
    /\ SignIdle
    /\ AuditIdle
    /\ vFile \in ValidateFiles
    /\ vGates = <<>>
    /\ vOutcome = "none"
    /\ vpc = "call"

\* validator.py 37-52
VValidate ==
    /\ vpc = "call"
    /\ vGates' = ValidateGates(vFile)
    /\ vOutcome' = Validate(vFile)
    /\ vpc' = "done"
    /\ UNCHANGED vFile
    /\ UNCHANGED <<coreVars, extractVars, redactVars, signVars, auditVars,
                 deadlineVars, healthVars, configVars, watchVars>>

NextValidate == VValidate

SpecValidate == InitValidate /\ [][NextValidate]_vars

GateOrder == <<"extension", "mime", "size", "encryption", "page_count">>

\* whether a gate refuses a file, read off the file
GateFails(g, f) ==
    CASE g = "extension" ->
            f.suffix \notin {".pdf", ".PDF", ".jpg", ".jpeg", ".png", ".PNG", ".tiff", ".tif"}
      [] g = "mime" ->
            f.mime \notin {"application/pdf", "image/jpeg", "image/png", "image/tiff"}
      [] g = "size" -> f.size > 50 * 1024 * 1024
      [] g = "encryption" -> ~f.openable \/ f.encrypted
      [] g = "page_count" -> f.page_count > 50

\* the PDF gates apply to files with the suffix .pdf, in any case
GateApplies(g, f) ==
    g \in {"encryption", "page_count"} => f.suffix \in {".pdf", ".PDF"}

GateReason(g, f) ==
    CASE g = "extension" -> "extension not allowed"
      [] g = "mime" -> IF f.mime = "raise" THEN "MIME detection failed"
                       ELSE "MIME type not allowed"
      [] g = "size" -> "file too large"
      [] g = "encryption" -> IF ~f.openable THEN "cannot open PDF" ELSE "PDF is encrypted"
      [] g = "page_count" -> "too many pages"

\* C14: validate evaluates the gates in the order extension, MIME, size,
\* encryption, page count and stops at the first that fails, raising that
\* gate's reason; it returns True exactly when no applicable gate fails; a
\* file of exactly the size limit and a PDF of exactly 50 pages pass.
C14_GatesInOrderFirstFailure ==
    vpc = "done" =>
        /\ Len(vGates) <= Len(GateOrder)
        /\ \A i \in 1..Len(vGates) : vGates[i] = GateOrder[i]
        /\ \A i \in 1..(Len(vGates) - 1) : ~GateFails(vGates[i], vFile)
        /\ vOutcome = "OK" <=>
              \A i \in 1..Len(GateOrder) :
                  GateApplies(GateOrder[i], vFile) => ~GateFails(GateOrder[i], vFile)
        /\ vOutcome # "OK" =>
              /\ GateFails(vGates[Len(vGates)], vFile)
              /\ vOutcome = GateReason(vGates[Len(vGates)], vFile)
        /\ vOutcome = "OK" =>
              \A i \in 1..Len(GateOrder) :
                  GateApplies(GateOrder[i], vFile) =>
                      \E k \in 1..Len(vGates) : vGates[k] = GateOrder[i]

\* C14 witness: a PDF of exactly the size limit and exactly 50 pages passed
\* all five gates
C14_Witness ==
    /\ vpc = "done"
    /\ vOutcome = "OK"
    /\ vGates = GateOrder
    /\ vFile.size = MaxSizeBytes
    /\ vFile.page_count = MAX_PDF_PAGES

\* C15: every accepted file whose sniffed MIME is application/pdf was
\* opened, is not encrypted and has at most 50 pages, whatever its extension.
C15_AcceptedPdfIsChecked ==
    (vpc = "done" /\ vOutcome = "OK" /\ vFile.mime = "application/pdf") =>
        /\ vFile.openable
        /\ ~vFile.encrypted
        /\ vFile.page_count <= MAX_PDF_PAGES

(***************************************************************************)
(* SpecRedact: one call of Redactor.redact on a list of entities.          *)
(***************************************************************************)
MaxRedactEnts == 2

MaxRedactPage == 2

AnnaText == <<"A", "n", "n", "a">>

RedactEntities ==
    [text : {BobText, AnnaText}, page : 0..MaxRedactPage, bbox : {NoBBox, PresetBBox}]

RedactInputs == UNION {[1..n -> RedactEntities] : n \in 0..MaxRedactEnts}

InitRedact ==
    /\ CoreIdle
    /\ WatchIdle
    /\ ConfigIdle
    /\ HealthIdle
    /\ DeadlineIdle
    /\ ExtractIdle
    /\ ValidateIdle
    /\ SignIdle
    /\ AuditIdle
    /\ rdEnts \in RedactInputs
    /\ rdDocPages \in 1..MaxRedactPage
    /\ rdSearch = <<>>
    /\ rdRects = <<>>
    /\ rdpc = "call"

\* redactor.py 19-85
RRedact ==
    /\ rdpc = "call"
    /\ \E search \in SearchAnswers(rdEnts, rdDocPages) :
          /\ rdSearch' = search
          /\ rdRects' = Redact(rdEnts, rdDocPages, search)
    /\ rdpc' = "done"
    /\ UNCHANGED <<rdEnts, rdDocPages>>
    /\ UNCHANGED <<coreVars, extractVars, validateVars, signVars, auditVars,
                 deadlineVars, healthVars, configVars, watchVars>>

NextRedact == RRedact

SpecRedact == InitRedact /\ [][NextRedact]_vars

\* the annotations (by index) added for entity i
AnnotationsOf(i) == {k \in 1..Len(rdRects) : rdRects[k].entity = i}

\* entity i got exactly one annotation, over rect, on its own page
OneAnnotation(i, rect) ==
    /\ Cardinality(AnnotationsOf(i)) = 1
    /\ \A k \in AnnotationsOf(i) :
          rdRects[k].rect = rect /\ rdRects[k].page = rdEnts[i].page

\* what the fallback branch is to do for entity i, which has no bbox
FallbackAsStated(i) ==
    IF Len(rdEnts[i].text) < 4 THEN AnnotationsOf(i) = {}
    ELSE IF rdSearch[i] = <<>> THEN AnnotationsOf(i) = {}
    ELSE OneAnnotation(i, rdSearch[i][1])

\* C16 as stated: at most one annotation per entity, on its own page: the
\* bbox when it is set; nothing for a bbox-less text shorter than 4; else
\* only the first rectangle of the text search, nothing when it has no hit.
C16_OneRectPerEntity ==
    rdpc = "done" =>
        /\ \A k \in 1..Len(rdRects) : rdRects[k].entity \in 1..Len(rdEnts)
        /\ \A i \in 1..Len(rdEnts) :
              IF rdEnts[i].bbox # NoBBox THEN OneAnnotation(i, rdEnts[i].bbox)
              ELSE FallbackAsStated(i)

\* C16 amended: an entity whose page index is not below the document's page
\* count gets no annotation, with or without a bbox; every other entity is
\* treated as stated.
C16_OneRectPerEntityOnExistingPage ==
    rdpc = "done" =>
        /\ \A k \in 1..Len(rdRects) : rdRects[k].entity \in 1..Len(rdEnts)
        /\ \A i \in 1..Len(rdEnts) :
              IF rdEnts[i].page >= rdDocPages THEN AnnotationsOf(i) = {}
              ELSE IF rdEnts[i].bbox # NoBBox THEN OneAnnotation(i, rdEnts[i].bbox)
              ELSE FallbackAsStated(i)

\* C16 witness: one entity with a bbox on a page the document does not
\* have, and one bbox-less entity whose text the search found twice
C16_Witness ==
    /\ rdpc = "done"
    /\ \E i \in 1..Len(rdEnts) :
          rdEnts[i].page >= rdDocPages /\ rdEnts[i].bbox # NoBBox
    /\ \E i \in 1..Len(rdEnts) :
          /\ rdEnts[i].page < rdDocPages
          /\ rdEnts[i].bbox = NoBBox
          /\ Len(rdSearch[i]) = 2
          /\ Cardinality(AnnotationsOf(i)) = 1

(***************************************************************************)
(* SpecSign: a signer signs one PDF; the signed file may then have its     *)
(* page content changed, and its keywords metadata may be copied onto      *)
(* another PDF; a signer then verifies both files.                         *)
(***************************************************************************)
MaxKey == 2

MaxContent == 2

MaxNonce == 2

NoKeywords == [json |-> "invalid", pairs |-> <<>>]

\* keywords a PDF may carry that no signer wrote: none, JSON that is not an
\* object (a list, a number), an empty object, an object whose signature is
\* not hexadecimal, an object with a signature and no hash
ForeignKeywords ==
    {NoKeywords,
     [json |-> "other", pairs |-> <<>>],
     [json |-> "object", pairs |-> <<>>],
     [json |-> "object", pairs |-> <<(<<"secure_doc_ai_signature", <<"z", "z">> >>)>>],
     [json |-> "object", pairs |-> <<(<<"secure_doc_ai_signature", <<"0", "0">> >>)>>]}

Pdfs == [content : 1..MaxContent, keywords : ForeignKeywords]

InitSign ==
    /\ CoreIdle
    /\ WatchIdle
    /\ ConfigIdle
    /\ HealthIdle
    /\ DeadlineIdle
    /\ ExtractIdle
    /\ ValidateIdle
    /\ RedactIdle
    /\ AuditIdle
    /\ sgKey \in 1..MaxKey
    /\ sgVerifyKey \in 1..MaxKey
    /\ sgInput \in Pdfs
    /\ sgOut = <<>>
    /\ sgOther \in Pdfs
    /\ sgTampered = FALSE
    /\ sgVerdict = <<>>
    /\ sgpc = "sign"

\* signer.py 30-59
SSign ==
    /\ sgpc = "sign"
    /\ \E nonce \in 1..MaxNonce : sgOut' = <<Sign(sgKey, sgInput, nonce)>>
    /\ sgpc' = "signed"
    /\ UNCHANGED <<sgKey, sgVerifyKey, sgInput, sgOther, sgTampered, sgVerdict>>
    /\ UNCHANGED <<coreVars, extractVars, validateVars, redactVars, auditVars,
                 deadlineVars, healthVars, configVars, watchVars>>

\* someone rewrites the signed file's pages and keeps its metadata
STamper ==
    /\ sgpc = "signed"
    /\ ~sgTampered
    /\ \E c \in (1..MaxContent) \ {sgOut[1].content} :
          sgOut' = <<[sgOut[1] EXCEPT !.content = c]>>
    /\ sgTampered' = TRUE
    /\ UNCHANGED <<sgKey, sgVerifyKey, sgInput, sgOther, sgVerdict, sgpc>>
    /\ UNCHANGED <<coreVars, extractVars, validateVars, redactVars, auditVars,
                 deadlineVars, healthVars, configVars, watchVars>>

\* someone copies the signed file's keywords metadata onto the other PDF
SCopyKeywords ==
    /\ sgpc = "signed"
    /\ sgOther.keywords # sgOut[1].keywords
    /\ sgOther' = [sgOther EXCEPT !.keywords = sgOut[1].keywords]
    /\ UNCHANGED <<sgKey, sgVerifyKey, sgInput, sgOut, sgTampered, sgVerdict, sgpc>>
    /\ UNCHANGED <<coreVars, extractVars, validateVars, redactVars, auditVars,
                 deadlineVars, healthVars, configVars, watchVars>>

\* signer.py 61-82, on the signed file and on the other one
SVerify ==
    /\ sgpc = "signed"
    /\ sgVerdict' = <<Verify(sgVerifyKey, sgOut[1]), Verify(sgVerifyKey, sgOther)>>
    /\ sgpc' = "done"
    /\ UNCHANGED <<sgKey, sgVerifyKey, sgInput, sgOut, sgOther, sgTampered>>
    /\ UNCHANGED <<coreVars, extractVars, validateVars, redactVars, auditVars,
                 deadlineVars, healthVars, configVars, watchVars>>

NextSign == SSign \/ STamper \/ SCopyKeywords \/ SVerify

SpecSign == InitSign /\ [][NextSign]_vars

\* the value stored under a key of a file's keywords object
Stored(f, k) == Lookup(f.keywords.pairs, k)[1]

\* C17: verify of the file sign wrote, by a signer holding the same key, is
\* true; the stored hash is the lowercase hexadecimal SHA-256 of the input's
\* bytes and the stored signature is a signature of that stored hash.
C17_SignVerifyRoundTrip ==
    /\ sgOut # <<>> =>
          /\ sgOut[1].keywords.json = "object"
          /\ sgTampered \/ sgOut[1].content = sgInput.content
          /\ Stored(sgOut[1], "sha256") = Hex(Sha256(sgInput.content))
          /\ \A i \in 1..Len(Stored(sgOut[1], "sha256")) :
                Stored(sgOut[1], "sha256")[i] \in
                    {"0", "1", "2", "3", "4", "5", "6", "7", "8", "9",
                     "a", "b", "c", "d", "e", "f"}
          /\ IsHex(Stored(sgOut[1], "secure_doc_ai_signature"))
          /\ EcdsaVerify(sgKey, FromHex(Stored(sgOut[1], "secure_doc_ai_signature")),
                         Encode(Stored(sgOut[1], "sha256")))
    /\ (sgpc = "done" /\ sgVerifyKey = sgKey) => sgVerdict[1] = "true"

\* C17 witness: an untouched signed file verified true under the same key
\* while a signer with another key refuses its signature
C17_Witness ==
    /\ sgpc = "done"
    /\ sgVerifyKey = sgKey
    /\ ~sgTampered
    /\ sgVerdict[1] = "true"
    /\ \E k \in (1..MaxKey) \ {sgKey} : Verify(k, sgOut[1]) = "false"

\* C18: verify's result depends on the keywords metadata and the key only:
\* two files with the same keywords get the same result whatever their
\* content, and a signed file whose content was changed afterwards still
\* verifies true under the signing key.
C18_VerifyIgnoresContent ==
    sgpc = "done" =>
        /\ sgOut[1].keywords = sgOther.keywords => sgVerdict[1] = sgVerdict[2]
        /\ (sgTampered /\ sgVerifyKey = sgKey) => sgVerdict[1] = "true"

\* C18 witness: the signed file was changed after signing, its keywords
\* stand on another file of different content, and both verify true
C18_Witness ==
    /\ sgpc = "done"
    /\ sgTampered
    /\ sgOut[1].content # sgInput.content
    /\ sgOther.keywords = sgOut[1].keywords
    /\ sgOther.content # sgOut[1].content
    /\ sgVerdict = <<"true", "true">>

(***************************************************************************)
(* SpecAudit: threads of parallel jobs call log on the shared AuditLogger  *)
(* while get_job and get_stats are called from the API.  A log call goes   *)
(* through: take the lock, insert, commit, close and release.              *)
(***************************************************************************)
MaxThreads == 2

MaxLogCalls == 3

MaxReads == 2

Threads == 1..MaxThreads

JobIds == {"job1", "job2"}

\* pipeline.py 137-145: the results Pipeline.run hands to log
RunResults ==
    {[job_id |-> j, filename |-> <<"doc", ".pdf">>, status |-> "completed",
      entity_count |-> n, entities |-> <<>>, output_path |-> SignedName(j),
      error |-> "None"] : j \in JobIds, n \in {0, 1}}

\* the results log is called with: those of Pipeline.run, and FAILED ones
\* of another caller
AuditResults ==
    RunResults
    \cup {[job_id |-> j, filename |-> <<"doc", ".pdf">>, status |-> "failed",
            entity_count |-> 0, entities |-> <<>>, output_path |-> SignedName(j),
            error |-> "boom"] : j \in JobIds}

InitAudit ==
    /\ CoreIdle
    /\ WatchIdle
    /\ ConfigIdle
    /\ HealthIdle
    /\ DeadlineIdle
    /\ ExtractIdle
    /\ ValidateIdle
    /\ RedactIdle
    /\ SignIdle
    /\ auLock = 0
    /\ auPc = [t \in Threads |-> "idle"]
    /\ auArg = [t \in Threads |-> <<>>]
    /\ auTable = {}
    /\ auCommitted = <<>>
    /\ auReturned = {}
    /\ auRaised = {}
    /\ auCalls = 0
    /\ auRead = <<>>

auditRest == <<coreVars, extractVars, validateVars, redactVars, signVars,
              deadlineVars, healthVars, configVars, watchVars>>

\* a job's thread calls log(result) (pipeline.py 146)
ACall(t) ==
    /\ auPc[t] = "idle"
    /\ auCalls < MaxLogCalls
    /\ \E res \in AuditResults : auArg' = [auArg EXCEPT ![t] = <<res>>]
    /\ auPc' = [auPc EXCEPT ![t] = "call"]
    /\ auCalls' = auCalls + 1
    /\ UNCHANGED <<auLock, auTable, auCommitted, auReturned, auRaised, auRead>>
    /\ UNCHANGED auditRest

\* logger.py 54-55: with self._lock, then connect
ALock(t) ==
    /\ auPc[t] = "call"
    /\ Acquirable(auLock)
    /\ auLock' = t
    /\ auPc' = [auPc EXCEPT ![t] = "locked"]
    /\ UNCHANGED <<auArg, auTable, auCommitted, auReturned, auRaised, auCalls, auRead>>
    /\ UNCHANGED auditRest

\* logger.py 57-75: conn.execute returns
AInsert(t) ==
    /\ auPc[t] = "locked"
    /\ auPc' = [auPc EXCEPT ![t] = "inserted"]
    /\ UNCHANGED <<auLock, auArg, auTable, auCommitted, auReturned, auRaised, auCalls,
                   auRead>>
    /\ UNCHANGED auditRest

\* logger.py 57-75, 79-80: conn.execute raises; finally closes the connection
AInsertRaises(t) ==
    /\ auPc[t] = "locked"
    /\ auPc' = [auPc EXCEPT ![t] = "failing"]
    /\ UNCHANGED <<auLock, auArg, auTable, auCommitted, auReturned, auRaised, auCalls,
                   auRead>>
    /\ UNCHANGED auditRest

\* logger.py 76-78: conn.commit
ACommit(t) ==
    /\ auPc[t] = "inserted"
    /\ auTable' = Log(auTable, auArg[t][1])
    /\ auCommitted' = Append(auCommitted, auArg[t][1])
    /\ auPc' = [auPc EXCEPT ![t] = "committed"]
    /\ UNCHANGED <<auLock, auArg, auReturned, auRaised, auCalls, auRead>>
    /\ UNCHANGED auditRest

\* logger.py 79-80 and the end of the with block: close, release, leave
ARelease(t) ==
    /\ auPc[t] \in {"committed", "failing"}
    /\ auLock' = IF auLock = t THEN 0 ELSE auLock
    /\ IF auPc[t] = "committed"
       THEN auReturned' = auReturned \cup {auArg[t][1]} /\ UNCHANGED auRaised
       ELSE auRaised' = auRaised \cup {auArg[t][1]} /\ UNCHANGED auReturned
    /\ auPc' = [auPc EXCEPT ![t] = "idle"]
    /\ auArg' = [auArg EXCEPT ![t] = <<>>]
    /\ UNCHANGED <<auTable, auCommitted, auCalls, auRead>>
    /\ UNCHANGED auditRest

\* logger.py 82-88: get_job, which takes no lock
AGetJob ==
    /\ Len(auRead) < MaxReads
    /\ \E j \in JobIds :
          auRead' = Append(auRead, [kind |-> "get_job", held |-> auLock # 0,
                                    job |-> GetJob(auTable, j),
                                    stats |-> GetStats({})])
    /\ UNCHANGED <<auLock, auPc, auArg, auTable, auCommitted, auReturned, auRaised,
                   auCalls>>
    /\ UNCHANGED auditRest

\* logger.py 90-110: get_stats, which takes no lock
AGetStats ==
    /\ Len(auRead) < MaxReads
    /\ auRead' = Append(auRead, [kind |-> "get_stats", held |-> auLock # 0,
                                 job |-> <<>>, stats |-> GetStats(auTable)])
    /\ UNCHANGED <<auLock, auPc, auArg, auTable, auCommitted, auReturned, auRaised,
                   auCalls>>
    /\ UNCHANGED auditRest

NextAudit ==
    \/ \E t \in Threads : ACall(t)
    \/ \E t \in Threads : ALock(t)
    \/ \E t \in Threads : AInsert(t)
    \/ \E t \in Threads : AInsertRaises(t)
    \/ \E t \in Threads : ACommit(t)
    \/ \E t \in Threads : ARelease(t)
    \/ AGetJob
    \/ AGetStats

SpecAudit == InitAudit /\ [][NextAudit]_vars

\* the row a result is stored as
RowOf(res) ==
    [job_id |-> res.job_id, filename |-> res.filename, status |-> res.status,
     entity_count |-> res.entity_count, output_path |-> res.output_path,
     error |-> res.error]

\* the positions in the commit order at which job j was written
CommitsOf(j) == {i \in 1..Len(auCommitted) : auCommitted[i].job_id = j}

\* C19: after any sequence of log calls the table holds, for every job_id
\* logged, exactly one row, carrying the values of the job's most recent
\* log call, and no row for any other job_id; so a call leaves the rows of
\* other jobs as they were.
C19_UpsertOnJobId ==
    \A j \in JobIds :
        IF CommitsOf(j) = {}
        THEN {r \in auTable : r.job_id = j} = {}
        ELSE {r \in auTable : r.job_id = j} = {RowOf(auCommitted[SetMax(CommitsOf(j))])}

\* C19 witness: a job logged twice with different values while another
\* job's row stands in the table
C19_Witness ==
    \E j \in JobIds :
        /\ Cardinality(CommitsOf(j)) = 2
        /\ auCommitted[SetMin(CommitsOf(j))] # auCommitted[SetMax(CommitsOf(j))]
        /\ \E k \in JobIds \ {j} : CommitsOf(k) # {} /\ SetMin(CommitsOf(k)) < SetMax(CommitsOf(j))

InSection == {"locked", "inserted", "committed", "failing"}

\* at most one thread is between taking the lock and releasing it, and the
\* lock is held exactly while a thread is there, so it is free again after
\* every exit, also after an insert that raised
OneWriter ==
    /\ Cardinality({t \in Threads : auPc[t] \in InSection}) <= 1
    /\ \A t \in Threads : auPc[t] \in InSection <=> auLock = t
    /\ (\A t \in Threads : auPc[t] \notin InSection) => auLock = 0

\* get_job and get_stats can run whoever holds the lock
ReadsNeverWait == Len(auRead) < MaxReads => (ENABLED AGetJob /\ ENABLED AGetStats)

PROCESSING_TIMEOUT_SECONDS == 30

MaxStageSeconds == 31

\* what a stage can take: no time, a second, or longer than the whole timeout
StageSeconds == {0, 1, MaxStageSeconds}

InitDeadline ==
    /\ CoreIdle
    /\ WatchIdle
    /\ ConfigIdle
    /\ HealthIdle
    /\ ExtractIdle
    /\ ValidateIdle
    /\ RedactIdle
    /\ SignIdle
    /\ AuditIdle
    /\ dlValid \in BOOLEAN
    /\ dlStage = "idle"
    /\ dlStart = <<>>
    /\ dlNow \in {0, 1}
    /\ dlResult = <<>>

deadlineRest ==
    <<coreVars, extractVars, validateVars, redactVars, signVars, auditVars, healthVars, configVars, watchVars>>

\* pipeline.py 60: start = time.time()
DStart ==
    /\ dlStage = "idle"
    /\ dlStart' = <<dlNow>>
    /\ dlStage' = "validate"
    /\ UNCHANGED <<dlValid, dlNow, dlResult>>
    /\ UNCHANGED deadlineRest

\* pipeline.py 64-66: validate returns
DValidateOk ==
    /\ dlStage = "validate"
    /\ dlValid
    /\ \E d \in StageSeconds : dlNow' = dlNow + d
    /\ dlStage' = NextStage(dlStage)
    /\ UNCHANGED <<dlValid, dlStart, dlResult>>
    /\ UNCHANGED deadlineRest

\* pipeline.py 67-76: validate raises ValidationError; run rejects the file
\* and returns FAILED with the validator's message
DValidateReject ==
    /\ dlStage = "validate"
    /\ ~dlValid
    /\ \E d \in StageSeconds :
          /\ dlNow' = dlNow + d
          /\ dlResult' = <<[status |-> "failed", error |-> "validation",
                            duration_seconds |-> dlNow' - dlStart[1]]>>
    /\ dlStage' = "returned"
    /\ UNCHANGED <<dlValid, dlStart>>
    /\ UNCHANGED deadlineRest

\* pipeline.py 78-132: extract, detect, resolve, redact or sign returns and
\* run goes on to the next stage
DStage ==
    /\ dlStage \in {"extract", "detect", "resolve", "redact", "sign"}
    /\ \E d \in StageSeconds : dlNow' = dlNow + d
    /\ dlStage' = NextStage(dlStage)
    /\ UNCHANGED <<dlValid, dlStart, dlResult>>
    /\ UNCHANGED deadlineRest

\* pipeline.py 134-152: the duration is read, the COMPLETED result is built
\* and logged, and run returns it
DAudit ==
    /\ dlStage = "audit"
    /\ dlResult' = <<[status |-> "completed", error |-> "None",
                      duration_seconds |-> dlNow - dlStart[1]]>>
    /\ \E d \in StageSeconds : dlNow' = dlNow + d
    /\ dlStage' = NextStage(dlStage)
    /\ UNCHANGED <<dlValid, dlStart>>
    /\ UNCHANGED deadlineRest

NextDeadline ==
    \/ DStart
    \/ DValidateOk
    \/ DValidateReject
    \/ DStage
    \/ DAudit

SpecDeadline == InitDeadline /\ [][NextDeadline]_vars

\* the seconds the run has been going
Elapsed == IF dlStart = <<>> THEN 0 ELSE dlNow - dlStart[1]

\* C21: a run that has gone past processing_timeout_seconds is not on its
\* way to a further stage and has not returned anything but FAILED with a
\* timeout error.
C21_DeadlineEnforced ==
    Elapsed > PROCESSING_TIMEOUT_SECONDS
        => /\ dlStage = "returned"
           /\ dlResult # <<>>
           /\ dlResult[1].status = "failed"
           /\ dlResult[1].error = "timeout"

\* the rows the store must hold: for each job logged, its last commit
StoredRows ==
    {RowOf(auCommitted[SetMax(CommitsOf(j))]) : j \in {k \in JobIds : CommitsOf(k) # {}}}

\* the entity_count of job j's stored row, 0 when it has none
StoredEntities(j) ==
    IF CommitsOf(j) = {} THEN 0 ELSE auCommitted[SetMax(CommitsOf(j))].entity_count

\* C22: after any sequence of log calls get_stats reports the number of
\* rows as total_jobs, the numbers of rows with status completed and failed,
\* and the sum of entity_count over the rows; every field is 0 on an empty
\* store; and when only results of Pipeline.run were logged, total_jobs is
\* completed + failed.
C22_StatsReflectStore ==
    LET stats == GetStats(auTable)
    IN  /\ stats.total_jobs = Cardinality(StoredRows)
        /\ stats.completed = Cardinality({r \in StoredRows : r.status = "completed"})
        /\ stats.failed = Cardinality({r \in StoredRows : r.status = "failed"})
        /\ stats.total_entities_detected = StoredEntities("job1") + StoredEntities("job2")
        /\ auCommitted = <<>>
              => /\ stats.total_jobs = 0
                 /\ stats.completed = 0
                 /\ stats.failed = 0
                 /\ stats.total_entities_detected = 0
        /\ (\A i \in 1..Len(auCommitted) : auCommitted[i] \in RunResults)
              => stats.total_jobs = stats.completed + stats.failed

\* C22 witness: get_stats was called on a store holding a completed row
\* with an entity and a failed row, one of the jobs logged twice, and
\* returned these counts
C22_Witness ==
    /\ Len(auCommitted) = 3
    /\ Cardinality(auTable) = 2
    /\ auRead # <<>>
    /\ auRead[Len(auRead)].kind = "get_stats"
    /\ auRead[Len(auRead)].stats = GetStats(auTable)
    /\ auRead[Len(auRead)].stats.completed = 1
    /\ auRead[Len(auRead)].stats.failed = 1
    /\ auRead[Len(auRead)].stats.total_entities_detected = 1

(***************************************************************************)
(* SpecHealth: the application's lifecycle (lifespan) and the endpoints    *)
(* that answer from the three shared instances.                            *)
(***************************************************************************)
MaxResponses == 3

\* main.py 116-120: the checks object, as a set of <<key, value>>
Checks(pipeline, watcher, auditor) ==
    {<<"pipeline", IF pipeline THEN "ready" ELSE "not_ready">>,
     <<"watcher", IF watcher THEN "running" ELSE "stopped">>,
     <<"database", IF auditor THEN "connected" ELSE "not_connected">>}

\* main.py 113-126
Readiness(pipeline, watcher, auditor) ==
    LET checks == Checks(pipeline, watcher, auditor)
    IN  [code |-> 200,
         status |-> IF \A c \in checks : c[2] \in {"ready", "running", "connected"}
                    THEN "ready" ELSE "not_ready",
         checks |-> checks]

InitHealth ==
    /\ CoreIdle
    /\ WatchIdle
    /\ ConfigIdle
    /\ ExtractIdle
    /\ ValidateIdle
    /\ RedactIdle
    /\ SignIdle
    /\ AuditIdle
    /\ DeadlineIdle
    /\ hPhase = "imported"
    /\ hPipeline = FALSE
    /\ hWatcher = FALSE
    /\ hAuditor = FALSE
    /\ hResponses = <<>>

healthRest ==
    <<coreVars, extractVars, validateVars, redactVars, signVars, auditVars,
      deadlineVars, configVars, watchVars>>

\* a response as it is recorded: with its endpoint and the phase it was
\* given in
Answer(endpoint, response) ==
    [endpoint |-> endpoint, phase |-> hPhase, code |-> response.code,
     status |-> response.status, checks |-> response.checks]

\* requests are served before the lifespan has run (an app used without
\* it) and while the application runs
Serving == hPhase \in {"imported", "running"} /\ Len(hResponses) < MaxResponses

\* main.py 47-84: startup up to the yield
HStartup ==
    /\ hPhase = "imported"
    /\ hPhase' = "running"
    /\ hPipeline' = TRUE
    /\ hAuditor' = TRUE
    /\ hWatcher' = TRUE
    /\ UNCHANGED hResponses
    /\ UNCHANGED healthRest

\* main.py 60-82: startup raises, in mkdir or in Pipeline(...) before
\* _pipeline is assigned, or in FileWatcher.start after _pipeline and
\* _auditor are
HStartupRaises ==
    /\ hPhase = "imported"
    /\ hPhase' = "failed"
    /\ \E assigned \in BOOLEAN :
          /\ hPipeline' = assigned
          /\ hAuditor' = assigned
          /\ hWatcher' = assigned
    /\ UNCHANGED hResponses
    /\ UNCHANGED healthRest

\* main.py 86-89: shutdown stops the watcher; the three instances stay set
HShutdown ==
    /\ hPhase = "running"
    /\ hPhase' = "stopped"
    /\ UNCHANGED <<hPipeline, hWatcher, hAuditor, hResponses>>
    /\ UNCHANGED healthRest

\* main.py 104-110
HLiveness ==
    /\ Serving
    /\ hResponses' = Append(hResponses,
                            Answer("/health/live",
                                   [code |-> 200, status |-> "ok", checks |-> {}]))
    /\ UNCHANGED <<hPhase, hPipeline, hWatcher, hAuditor>>
    /\ UNCHANGED healthRest

\* main.py 113-126
HReadiness ==
    /\ Serving
    /\ hResponses' = Append(hResponses,
                            Answer("/health/ready",
                                   Readiness(hPipeline, hWatcher, hAuditor)))
    /\ UNCHANGED <<hPhase, hPipeline, hWatcher, hAuditor>>
    /\ UNCHANGED healthRest

\* main.py 182-190: 503 without the auditor
HGetStats ==
    /\ Serving
    /\ hResponses' = Append(hResponses,
                            Answer("/api/v1/stats",
                                   IF hAuditor
                                   THEN [code |-> 200, status |-> "stats", checks |-> {}]
                                   ELSE [code |-> 503, status |-> "Audit DB not ready",
                                         checks |-> {}]))
    /\ UNCHANGED <<hPhase, hPipeline, hWatcher, hAuditor>>
    /\ UNCHANGED healthRest

\* main.py 193-195
HRoot ==
    /\ Serving
    /\ hResponses' = Append(hResponses,
                            Answer("/", [code |-> 200, status |-> "message",
                                         checks |-> {}]))
    /\ UNCHANGED <<hPhase, hPipeline, hWatcher, hAuditor>>
    /\ UNCHANGED healthRest

NextHealth ==
    \/ HStartup
    \/ HStartupRaises
    \/ HShutdown
    \/ HLiveness
    \/ HReadiness
    \/ HGetStats
    \/ HRoot

SpecHealth == InitHealth /\ [][NextHealth]_vars

\* C23: every answer of GET /health/ready given once startup has completed
\* has status "ready" and a checks object with the keys "model" and
\* "database".
C23_ReadyHasModelAndDatabase ==
    \A i \in 1..Len(hResponses) :
        (hResponses[i].endpoint = "/health/ready" /\ hResponses[i].phase = "running")
            => /\ hResponses[i].status = "ready"
               /\ \E c \in hResponses[i].checks : c[1] = "model"
               /\ \E c \in hResponses[i].checks : c[1] = "database"

(***************************************************************************)
(* SpecConfig: the detector Pipeline.__init__ builds under a configuration,*)
(* and one detect call of a run on it.                                     *)
(***************************************************************************)
MaxConfigTokens == 2

ConfigTexts ==
    UNION {{Concat(f) : f \in [1..n -> {SsnText, BobText, <<" ">>}]} :
              n \in 0..MaxConfigTokens}

\* detector.py 103-116: _load_ner leaves _ner set when the model loads and
\* None when loading raises
LoadNer(available) == available

\* detector.py 54-59: the detector after __init__(use_ner)
PIIDetectorInit(use_ner, available) ==
    [ner |-> IF use_ner THEN LoadNer(available) ELSE FALSE,
     use_ner |-> use_ner,
     load_calls |-> IF use_ner THEN 1 ELSE 0]

\* pipeline.py 53: self.detector = PIIDetector(), whatever the setting
PipelineDetector(settings_use_ner, available) == PIIDetectorInit(TRUE, available)

InitConfig ==
    /\ CoreIdle
    /\ WatchIdle
    /\ ExtractIdle
    /\ ValidateIdle
    /\ RedactIdle
    /\ SignIdle
    /\ AuditIdle
    /\ DeadlineIdle
    /\ HealthIdle
    /\ cfUseNer \in BOOLEAN
    /\ cfAvailable \in BOOLEAN
    /\ cfText \in ConfigTexts
    /\ cfNer = FALSE
    /\ cfLoadCalls = 0
    /\ cfTagCalls = 0
    /\ cfEntities = <<>>
    /\ cfpc = "configured"

configRest ==
    <<coreVars, extractVars, validateVars, redactVars, signVars, auditVars,
      deadlineVars, healthVars, watchVars>>

\* main.py 65-72, pipeline.py 50-56: the pipeline is built
CBuild ==
    /\ cfpc = "configured"
    /\ LET detector == PipelineDetector(cfUseNer, cfAvailable)
       IN  /\ cfNer' = detector.ner
           /\ cfLoadCalls' = detector.load_calls
    /\ cfpc' = "built"
    /\ UNCHANGED <<cfUseNer, cfAvailable, cfText, cfTagCalls, cfEntities>>
    /\ UNCHANGED configRest

\* pipeline.py 86-88, detector.py 61-82: a run detects on a page; the tagger
\* is called once per chunk when _ner is set
CDetect ==
    /\ cfpc = "built"
    /\ \E answers \in AnswersFor(cfText) :
          /\ cfEntities' = Detect(cfText, 0, cfNer, answers)
          /\ cfTagCalls' = IF cfNer THEN Cardinality(DOMAIN answers) ELSE 0
    /\ cfpc' = "done"
    /\ UNCHANGED <<cfUseNer, cfAvailable, cfText, cfNer, cfLoadCalls>>
    /\ UNCHANGED configRest

NextConfig ==
    \/ CBuild
    \/ CDetect

SpecConfig == InitConfig /\ [][NextConfig]_vars

\* C24: with use_ner false the NER tagger is never loaded and never called,
\* and every entity a run produces has source "regex".
C24_RegexOnlyWhenNerDisabled ==
    ~cfUseNer
        => /\ cfLoadCalls = 0
           /\ cfTagCalls = 0
           /\ ~cfNer
           /\ \A i \in 1..Len(cfEntities) : cfEntities[i].source = "regex"

\* whether a PDF's keywords hold what verify needs: a JSON object with a
\* hexadecimal signature and a hash
WellFormed(f) ==
    /\ f.keywords.json = "object"
    /\ Lookup(f.keywords.pairs, "secure_doc_ai_signature") # <<>>
    /\ IsHex(Lookup(f.keywords.pairs, "secure_doc_ai_signature")[1])
    /\ Lookup(f.keywords.pairs, "sha256") # <<>>

\* C27: verify of a PDF it can open never raises: it returns False when the
\* keywords are absent, not JSON, JSON but not an object, lack the signature
\* or the hash, or hold a signature that is not hexadecimal, and True only
\* when the stored signature verifies against the stored hash under the
\* resident key.
C27_VerifyNeverRaises ==
    sgpc = "done" =>
        \A i \in 1..2 :
            LET f == IF i = 1 THEN sgOut[1] ELSE sgOther
            IN  /\ sgVerdict[i] \in {"true", "false"}
                /\ ~WellFormed(f) => sgVerdict[i] = "false"
                /\ sgVerdict[i] = "true" =>
                      /\ WellFormed(f)
                      /\ EcdsaVerify(sgVerifyKey,
                                     FromHex(Stored(f, "secure_doc_ai_signature")),
                                     Encode(Stored(f, "sha256")))

(***************************************************************************)
(* SpecWatch: one file in the uploads directory.  It is dropped there by   *)
(* someone or saved there by the POST handler; the observer's created and  *)
(* modified events and the start-up scan each start a debounce thread, and *)
(* the POST handler moves the file it saved.  The two directories are      *)
(* siblings under one parent (main.py 57-58), where shutil.move is one     *)
(* os.rename.                                                              *)
(***************************************************************************)
WatcherThreads == {"created", "modified", "scan"}

Actors == WatcherThreads \cup {"api"}

InitWatch ==
    /\ CoreIdle
    /\ ExtractIdle
    /\ ValidateIdle
    /\ RedactIdle
    /\ SignIdle
    /\ AuditIdle
    /\ DeadlineIdle
    /\ HealthIdle
    /\ ConfigIdle
    /\ wOrigin = "none"
    /\ wUploads = FALSE
    /\ wProcessing = {}
    /\ wPc = [a \in Actors |-> "none"]
    /\ wRuns = <<>>

watchRest ==
    <<coreVars, extractVars, validateVars, redactVars, signVars, auditVars,
      deadlineVars, healthVars, configVars>>

\* someone copies the file into the uploads directory
WDrop ==
    /\ wOrigin = "none"
    /\ wOrigin' = "drop"
    /\ wUploads' = TRUE
    /\ UNCHANGED <<wProcessing, wPc, wRuns>>
    /\ UNCHANGED watchRest

\* main.py 137-146: the POST handler saves the upload under its file name
\* in the uploads directory
PSave ==
    /\ wOrigin = "none"
    /\ wOrigin' = "api"
    /\ wUploads' = TRUE
    /\ wPc' = [wPc EXCEPT !["api"] = "saved"]
    /\ UNCHANGED <<wProcessing, wRuns>>
    /\ UNCHANGED watchRest

\* watcher.py 33-59: an event for the file starts a debounce thread;
\* 119-137: so does the start-up scan, for a file that was dropped there
WSpawn(t) ==
    /\ wPc[t] = "none"
    /\ wUploads
    /\ t = "scan" => wOrigin = "drop"
    /\ wPc' = [wPc EXCEPT ![t] = "sleeping"]
    /\ UNCHANGED <<wOrigin, wUploads, wProcessing, wRuns>>
    /\ UNCHANGED watchRest

\* watcher.py 66-74: after the sleep, return if the file is gone
WWake(t) ==
    /\ wPc[t] = "sleeping"
    /\ wPc' = [wPc EXCEPT ![t] = IF wUploads THEN "checked" ELSE "returned"]
    /\ UNCHANGED <<wOrigin, wUploads, wProcessing, wRuns>>
    /\ UNCHANGED watchRest

\* watcher.py 76-85: shutil.move; OSError (the file is gone) is caught and
\* the thread returns
WMove(t) ==
    /\ wPc[t] = "checked"
    /\ IF wUploads
       THEN /\ wUploads' = FALSE
            /\ wProcessing' = wProcessing \cup {t}
            /\ wPc' = [wPc EXCEPT ![t] = "moved"]
       ELSE /\ wPc' = [wPc EXCEPT ![t] = "returned"]
            /\ UNCHANGED <<wUploads, wProcessing>>
    /\ UNCHANGED <<wOrigin, wRuns>>
    /\ UNCHANGED watchRest

\* watcher.py 87-91: the pipeline callback
WCallback(t) ==
    /\ wPc[t] = "moved"
    /\ wRuns' = Append(wRuns, t)
    /\ wPc' = [wPc EXCEPT ![t] = "returned"]
    /\ UNCHANGED <<wOrigin, wUploads, wProcessing>>
    /\ UNCHANGED watchRest

\* main.py 149-156: shutil.move, in no try block: when the file is gone
\* FileNotFoundError leaves the handler
PMove ==
    /\ wPc["api"] = "saved"
    /\ IF wUploads
       THEN /\ wUploads' = FALSE
            /\ wProcessing' = wProcessing \cup {"api"}
            /\ wPc' = [wPc EXCEPT !["api"] = "moved"]
       ELSE /\ wPc' = [wPc EXCEPT !["api"] = "raised"]
            /\ UNCHANGED <<wUploads, wProcessing>>
    /\ UNCHANGED <<wOrigin, wRuns>>
    /\ UNCHANGED watchRest

\* main.py 158-167: the handler runs the pipeline and answers
PRun ==
    /\ wPc["api"] = "moved"
    /\ wRuns' = Append(wRuns, "api")
    /\ wPc' = [wPc EXCEPT !["api"] = "returned"]
    /\ UNCHANGED <<wOrigin, wUploads, wProcessing>>
    /\ UNCHANGED watchRest

NextWatch ==
    \/ WDrop
    \/ PSave
    \/ \E t \in WatcherThreads : WSpawn(t)
    \/ \E t \in WatcherThreads : WWake(t)
    \/ \E t \in WatcherThreads : WMove(t)
    \/ \E t \in WatcherThreads : WCallback(t)
    \/ PMove
    \/ PRun

SpecWatch == InitWatch /\ [][NextWatch]_vars

\* the actors that have finished without having moved the file
Losers == {a \in Actors : wPc[a] \in {"returned", "raised"} /\ a \notin wProcessing}

\* C26: the file is moved into the processing directory by at most one
\* actor, and by one once an actor has finished; the pipeline is started on
\* it at most once, and only by the actor that moved it; every loser has
\* returned and has started no job.
C26_IngestedAtMostOnce ==
    /\ Cardinality(wProcessing) <= 1
    /\ (\E a \in Actors : wPc[a] \in {"returned", "raised"}) => Cardinality(wProcessing) = 1
    /\ Len(wRuns) <= 1
    /\ \A i \in 1..Len(wRuns) : wRuns[i] \in wProcessing
    /\ \A a \in Losers :
          /\ wPc[a] = "returned"
          /\ \A i \in 1..Len(wRuns) : wRuns[i] # a

=============================================================================
